---- MODULE Spec2Model ----
(***************************************************************************)
(* Model of the crawler harness of un-jobs-hub                             *)
(* (backend/crawlers/base_crawler.py): BaseCrawler.run, the retry harness  *)
(* _retry_with_backoff, and save_jobs with its SQLAlchemy session          *)
(* (autoflush on query, rollback of the whole open transaction, commit     *)
(* every 10 upserts, final commit) over the jobs table whose job_id column *)
(* is UNIQUE (backend/models/job.py).                                      *)
(***************************************************************************)
EXTENDS Integers, Sequences, FiniteSets, Bags, TLC

\* ------------------------------------------------------------------ bounds
MaxRetriesBound == 3       \* max_retries ranges over 0..MaxRetriesBound
MaxJobs == 3               \* longest batch crawl() returns, one crawler alone
MaxJobsConc == 2           \* longest batch when two crawlers run concurrently
MaxRetriesConc == 1        \* max_retries ranges over 0..MaxRetriesConc there
NumPayloads == 1           \* distinct field contents a crawled job may carry
LongCrawl == 200           \* seconds taken by a slow crawl() attempt
MaxRuns == 55              \* monitored runs recorded for one organization
MaxDays == 2               \* the monitor's clock runs for this many days
TicksPerSecond == 2        \* resolution of the monitor's clock
MaxFound == 1              \* jobs one site crawler finds in a multi-site run
MaxCachePeriods == 2    \* the cache clock runs for this many TTL periods
MaxExtracted == 2       \* job dicts the site extractors build
MaxSeeds == 2           \* hash seeds an interpreter process can start with
MaxLen == 3             \* letters of the strings compared by fuzzy_match_score
LongBatch == 10         \* longest batch crawl() returns where commits are counted
MaxRetriesBatch == 2    \* max_retries is 0 or MaxRetriesBatch there
MaxAllowed == 5         \* requests the rate limiter lets through
MaxTicks == 2           \* times the clock of the rate limiter advances

\* ------------------------------------------------------- program constants
retry_delay == 5           \* BaseCrawler.__init__ default
timeout == 300             \* BaseCrawler.__init__ default (never read by run)
CommitEvery == 10          \* "Commit in batches of 10"
SecondsPerHour == 3600     \* total_seconds() / 3600
CriticalHours == 48        \* "No run in 48 hours"
WarningHours == 24         \* "No run in 24 hours"
Percent == 100             \* success_rate = successful_runs / total_runs * 100
CriticalRate == 50         \* success_rate < 50
WarningRate == 80          \* success_rate < 80
ManyErrors == 10           \* len(recent_errors) > 10
KeepErrors == 20           \* "Keep last 20 errors"
TopKeywordCount == 10      \* matching_keywords[:10], missing_keywords[:10]
MatchTTL == 3600           \* cache.set_json(cache_key, result, ttl=3600)
default_limit == 100       \* RateLimitMiddleware(default_limit=100)
default_window == 60       \* RateLimitMiddleware(default_window=60)
cleanup_interval == 3600   \* RateLimitMiddleware(cleanup_interval=3600)
max_age_seconds == 3600    \* InMemoryRateLimiter.cleanup(max_age_seconds=3600)

Crawlers == {1, 2}
JobIds == {"a", "b"}
NoId == "none"             \* a job dict without a (truthy) job_id
StartTime == 1             \* time.time() when run() starts (non-zero)

\* CrawlerStatus
IDLE == "idle"
RUNNING == "running"
SUCCESS == "success"
FAILED == "failed"
PARTIAL_SUCCESS == "partial_success"

\* CrawlerMetrics.__init__
CrawlerMetrics ==
  [start_time |-> 0, end_time |-> 0, jobs_found |-> 0, jobs_saved |-> 0,
   jobs_updated |-> 0, jobs_failed |-> 0, errors |-> <<>>, status |-> IDLE,
   retry_count |-> 0]

\* CrawlerMetrics.duration_seconds
duration_seconds(m) ==
  IF m.start_time # 0 /\ m.end_time # 0 THEN m.end_time - m.start_time ELSE 0

\* first n elements of a sequence (python s[:n])
Take(s, n) == IF Len(s) <= n THEN s ELSE SubSeq(s, 1, n)

\* CrawlerMetrics.to_dict (the fields the harness decides)
to_dict(m) ==
  [duration_seconds |-> duration_seconds(m), jobs_found |-> m.jobs_found,
   jobs_saved |-> m.jobs_saved, jobs_updated |-> m.jobs_updated,
   jobs_failed |-> m.jobs_failed, status |-> m.status,
   retry_count |-> m.retry_count, errors |-> Take(m.errors, 10)]

\* 2 ** n
RECURSIVE Pow2(_)
Pow2(n) == IF n = 0 THEN 1 ELSE 2 * Pow2(n - 1)

BackoffDelayFixed(attempt) == retry_delay

\* delay = self.retry_delay * (2 ** attempt)
BackoffDelay(attempt) == retry_delay * Pow2(attempt)

VARIABLES
  pc,          \* position of each crawler's run(): none/idle/crawl/save/done
  max_retries, \* self.max_retries of each crawler
  metrics,     \* self.metrics of each crawler
  attempt,     \* loop variable of _retry_with_backoff
  clock,       \* time.time() as each crawler sees it
  local,       \* save_jobs locals: position in jobs_data and the three counters
  session,     \* the SQLAlchemy session: pending (unflushed) and tx (flushed, uncommitted)
  storage,     \* committed rows of the jobs table (a bag of rows)
  escaped,     \* TRUE when an exception left run()
  hist,        \* observation of the run: calls of crawl(), its result, jobs seen
  storage0,    \* the jobs table as it was before any crawler ran
  batch_cap    \* the longest batch crawl() returns in this specification

vars == <<pc, max_retries, metrics, attempt, clock, local, session, storage,
          escaped, hist, storage0, batch_cap>>

VARIABLES
  crawler_stats, \* CrawlerMonitor.crawler_stats: organization -> stats
  utcnow,        \* the wall clock (time.time(), datetime.utcnow()) in ticks
  health,        \* the health report just returned, if any
  invoked        \* calls of monitored_crawl so far, by organization and outcome

VARIABLES
  ratelimit      \* RateLimitMiddleware: limiter.requests, last_cleanup, the clock

VARIABLES
  mainrun        \* run_all_crawlers.main: position, results list, sites called

VARIABLES
  pair,          \* the resume and the job of the match requests
  settings,      \* openai_available, settings.openai_api_key, state of Redis
  req,           \* each calculate_match_score call: position, locals, result
  cache_store,   \* what Redis holds under the key match:<resume id>:<job id>
  cache_clock    \* the time by which Redis expires keys, in seconds

VARIABLES
  extraction     \* the job dicts the site extractors built, and the jobs table

\* the state of everything but the crawler harness
others == <<crawler_stats, utcnow, health, invoked, ratelimit, mainrun, pair, settings, req, cache_store, cache_clock, extraction>>

\* the state of everything but the monitor
beside_monitor == <<vars, ratelimit, mainrun, pair, settings, req, cache_store, cache_clock, extraction>>

\* the state of everything but run_all_crawlers.main
beside_main == <<vars, crawler_stats, utcnow, health, invoked, ratelimit, pair, settings, req, cache_store, cache_clock, extraction>>

\* the state of everything but the match service and its cache
beside_match == <<vars, crawler_stats, utcnow, health, invoked, ratelimit, mainrun, extraction>>

\* the state of everything but the rate limiting middleware
beside_ratelimit == <<vars, crawler_stats, utcnow, health, invoked, mainrun, pair, settings, req, cache_store, cache_clock, extraction>>

\* the state of everything but the site extractors
beside_extraction == <<vars, crawler_stats, utcnow, health, invoked, ratelimit, mainrun, pair, settings, req, cache_store, cache_clock>>

NoReport == [organization |-> "", health |-> ""]

\* CrawlerMonitor.__init__: no stats yet
MonitorInit ==
  /\ crawler_stats = <<>>
  /\ utcnow = 0
  /\ invoked = <<>>
  /\ health = NoReport

\* main() not started: results = []
MainInit ==
  mainrun = [pc |-> "sites", results |-> <<>>, called |-> <<>>, raised |-> {}]

\* no match request is being served
MatchIdle ==
  /\ pair = <<>>
  /\ settings = <<>>
  /\ req = <<>>
  /\ cache_store = <<>>
  /\ cache_clock = 0

\* no site extractor has built a job dict, the jobs table is empty
ExtractionIdle ==
  extraction = [jobs_data |-> {}, table |-> <<>>, hashseed |-> 1, detail |-> <<>>]

\* RateLimitMiddleware.__init__ at time 0: no request seen, nothing let through
RateLimitIdle ==
  ratelimit = [requests |-> <<>>, last_cleanup |-> 0, now |-> 0, ticks |-> 0,
               allowed |-> <<>>]

OthersIdle ==
  MonitorInit /\ MainInit /\ MatchIdle /\ ExtractionIdle /\ RateLimitIdle

\* save_jobs: saved_count = 0, updated_count = 0, failed_count = 0
NewLocal == [pos |-> 0, saved_count |-> 0, updated_count |-> 0, failed_count |-> 0]

\* self.SessionLocal()
NewSession == [pending |-> <<>>, tx |-> {}]

NewHist ==
  [crawl_calls |-> 0, result |-> "unreturned", save_raised |-> FALSE,
   counted |-> {}, batch_ids |-> {}, all_ok |-> TRUE, sleeps |-> <<>>,
   open |-> 0, committed |-> 0]

Row(j, p, t) == [job_id |-> j, payload |-> p, last_scraped |-> t]

\* the rows an earlier run left behind: at most one per job_id
InitialStorages ==
  { SetToBag({ Row(j, 0, 0) : j \in S }) : S \in SUBSET JobIds }

\* datetime.utcnow() / func.now() during the run of crawler c
RunStamp(c) == c

\* ---------------------------------------------------------------- session
\* one row written by crawler c: session.add(Job(**job_data)) or the setattr loop
ApplyOp(bag, op, c) ==
  IF op.op = "ins"
  THEN bag (+) SetToBag({Row(op.job_id, op.payload, RunStamp(c))})
  ELSE LET rows == {r \in BagToSet(bag) : r.job_id = op.job_id}
       IN IF rows = {} THEN bag
          ELSE LET r == CHOOSE x \in rows : TRUE
               IN (bag (-) SetToBag({r})) (+)
                  SetToBag({Row(op.job_id, op.payload, RunStamp(c))})

\* the writes of a transaction, one per job_id, applied to a table
RECURSIVE ApplyOps(_, _, _)
ApplyOps(bag, ops, c) ==
  IF ops = {} THEN bag
  ELSE LET op == CHOOSE x \in ops : TRUE
       IN ApplyOps(ApplyOp(bag, op, c), ops \ {op}, c)

\* what the connection of crawler c reads with the transaction s open
\* (READ COMMITTED): the committed rows and its own flushed writes
View(c, s) == ApplyOps(storage, s.tx, c)

IdsOf(bag) == {r.job_id : r \in BagToSet(bag)}

\* job_id = Column(String, unique=True): the INSERT of op is refused
UniqueViolation(c, s, op) == op.op = "ins" /\ op.job_id \in IdsOf(View(c, s))

\* job_ids of the rows the open transaction of d has written
LockedBy(d) == {o.job_id : o \in session[d].tx}

\* flushing s has to wait for a row lock of another open transaction
Waits(c, s) ==
  /\ s.pending # <<>>
  /\ \E d \in Crawlers \ {c} : s.pending[1].job_id \in LockedBy(d)

\* two transactions wait for each other: the database aborts the statement
Deadlock(c, s) ==
  /\ Waits(c, s)
  /\ \E d \in Crawlers \ {c} : Waits(d, session[d])

\* session.flush() (autoflush before a query, or inside commit) raises
FlushFails(c, s) ==
  /\ s.pending # <<>>
  /\ \/ s.pending[1].bad
     \/ UniqueViolation(c, s, s.pending[1])
     \/ Deadlock(c, s)

FlushWaits(c, s) == Waits(c, s) /\ ~FlushFails(c, s)

\* the writes of a transaction after op was flushed: a second write to the
\* same row replaces the values of the first
MergeOp(tx, op) ==
  IF op.op = "upd" /\ \E o \in tx : o.job_id = op.job_id
  THEN {IF o.job_id = op.job_id THEN [o EXCEPT !.payload = op.payload] ELSE o
          : o \in tx}
  ELSE tx \cup {op}

\* session state after a successful flush
Flushed(s) ==
  IF s.pending = <<>> THEN s
  ELSE [pending |-> <<>>, tx |-> MergeOp(s.tx, s.pending[1])]

\* session.rollback(): everything not committed is discarded
Rollback(s) == [pending |-> <<>>, tx |-> {}]

\* session.commit(): flush what is pending, then make the transaction durable
Committed(c, s) == ApplyOps(storage, Flushed(s).tx, c)

\* ------------------------------------------------------------------- run
\* except Exception in run(): the run is marked failed
RunExcept(m) ==
  [m EXCEPT !.status = FAILED, !.errors = Append(@, "crawl_failed")]

\* the exceptions the model raises; all of them derive from Exception
ExcKinds == {"CrawlError", "AttributeError", "TypeError", "IntegrityError"}

\* mutant: the handler of run() catches the crawl's own error only
CaughtCrawlErrorOnly(e) == e = "CrawlError"

\* "except Exception" (run, _retry_with_backoff, save_jobs) catches e
Caught(e) == e \in ExcKinds

\* finally: self.metrics.end_time = time.time()
Finish(m, now) == [m EXCEPT !.end_time = now]

Init ==
  /\ pc = [c \in Crawlers |-> IF c = 1 THEN "idle" ELSE "none"]
  /\ max_retries \in [Crawlers -> 0..MaxRetriesBound]
  /\ max_retries[2] = 0
  /\ metrics = [c \in Crawlers |-> CrawlerMetrics]
  /\ attempt = [c \in Crawlers |-> 0]
  /\ clock = [c \in Crawlers |-> StartTime]
  /\ local = [c \in Crawlers |-> NewLocal]
  /\ session = [c \in Crawlers |-> NewSession]
  /\ storage \in InitialStorages
  /\ escaped = [c \in Crawlers |-> FALSE]
  /\ hist = [c \in Crawlers |-> NewHist]
  /\ storage0 = storage
  /\ batch_cap = MaxJobs
  /\ OthersIdle

\* run(): reset metrics, start_time, status = RUNNING
Start(c) ==
  /\ pc[c] = "idle"
  /\ metrics' = [metrics EXCEPT ![c] =
        [CrawlerMetrics EXCEPT !.start_time = clock[c], !.status = RUNNING]]
  /\ attempt' = [attempt EXCEPT ![c] = 0]
  /\ pc' = [pc EXCEPT ![c] = "crawl"]
  /\ UNCHANGED <<max_retries, clock, local, session, storage, escaped, hist,
                 storage0, batch_cap>>
  /\ UNCHANGED others

\* what crawl() may hand back
ResultShapes ==
  {"none",       \* None
   "empty",      \* {}
   "nondict",    \* a truthy value without .get, e.g. a list of jobs
   "nojobs",     \* a dict without the key "jobs" (what the site spiders return)
   "jobs_none",  \* {"jobs": None}
   "jobs_empty", \* {"jobs": []}
   "jobs"}       \* {"jobs": [job, ...]} with at least one job

\* mutant: only None counts as no result
TruthyUnlessNone(shape) == shape # "none"

\* "if result:" in run()
Truthy(shape) == shape \notin {"none", "empty"}

\* result.get("jobs", []) / len(...) raises
ResultRaises(shape) ==
  CASE shape = "nondict" -> "AttributeError"
    [] shape = "jobs_none" -> "TypeError"
    [] OTHER -> "ok"

CrawlDurations == {0, LongCrawl}

\* the exception e leaves the try block of run(): except + finally
RunFails(c, m, e, now) ==
  /\ metrics' = [metrics EXCEPT ![c] =
        IF Caught(e) THEN Finish(RunExcept(m), now) ELSE Finish(m, now)]
  /\ escaped' = [escaped EXCEPT ![c] = ~Caught(e)]
  /\ pc' = [pc EXCEPT ![c] = "done"]

\* mutant: the failed attempt is logged but not counted
AttemptFailedNotCounted(m) == [m EXCEPT !.errors = Append(@, "attempt")]

\* metrics after one failed attempt (lines 126-130)
AttemptFailed(m) ==
  [m EXCEPT !.retry_count = @ + 1, !.errors = Append(@, "attempt")]

\* mutant: the harness gives up one attempt early
RetriesLeftOneShort(a, n) == a < n - 2

\* "if attempt < self.max_retries - 1": sleep and try again
RetriesLeft(a, n) == a < n - 1

\* _retry_with_backoff: func raises on this attempt
CrawlRaises(c) ==
  /\ pc[c] = "crawl"
  /\ attempt[c] < max_retries[c]
  /\ \E d \in CrawlDurations :
       LET m1 == AttemptFailed(metrics[c])
           delay == BackoffDelay(attempt[c])
       IN IF RetriesLeft(attempt[c], max_retries[c])
          THEN /\ metrics' = [metrics EXCEPT ![c] = m1]
               /\ clock' = [clock EXCEPT ![c] = @ + d + delay]
               /\ attempt' = [attempt EXCEPT ![c] = @ + 1]
               /\ hist' = [hist EXCEPT ![c].crawl_calls = @ + 1,
                                       ![c].sleeps = Append(@, delay)]
               /\ UNCHANGED <<pc, escaped>>
          ELSE /\ RunFails(c, m1, "CrawlError", clock[c] + d)
               /\ clock' = [clock EXCEPT ![c] = @ + d]
               /\ hist' = [hist EXCEPT ![c].crawl_calls = @ + 1]
               /\ UNCHANGED attempt
  /\ UNCHANGED <<max_retries, local, session, storage, storage0, batch_cap>>
  /\ UNCHANGED others

\* _retry_with_backoff: the loop ends without a call (max_retries = 0): return None
HarnessReturnsNone(c) ==
  /\ pc[c] = "crawl"
  /\ attempt[c] >= max_retries[c]
  /\ metrics' = [metrics EXCEPT ![c] =
        Finish([@ EXCEPT !.status = FAILED], clock[c])]
  /\ pc' = [pc EXCEPT ![c] = "done"]
  /\ hist' = [hist EXCEPT ![c].result = "no_call"]
  /\ UNCHANGED <<max_retries, attempt, clock, local, session, storage,
                 escaped, storage0, batch_cap>>
  /\ UNCHANGED others

\* _retry_with_backoff: func returns; run() lines 248-265 up to save_jobs
CrawlReturns(c) ==
  /\ pc[c] = "crawl"
  /\ attempt[c] < max_retries[c]
  /\ \E d \in CrawlDurations, shape \in ResultShapes, n \in 1..batch_cap :
       LET now == clock[c] + d
           m == metrics[c]
       IN /\ clock' = [clock EXCEPT ![c] = now]
          /\ hist' = [hist EXCEPT ![c].crawl_calls = @ + 1,
                                  ![c].result = shape]
          /\ IF ~Truthy(shape)
             THEN /\ metrics' = [metrics EXCEPT ![c] =
                         Finish([m EXCEPT !.status = FAILED], now)]
                  /\ pc' = [pc EXCEPT ![c] = "done"]
                  /\ UNCHANGED <<local, session, escaped>>
             ELSE IF ResultRaises(shape) # "ok"
             THEN /\ RunFails(c, m, ResultRaises(shape), now)
                  /\ UNCHANGED <<local, session>>
             ELSE IF shape # "jobs"
             THEN /\ metrics' = [metrics EXCEPT ![c] =
                         Finish([m EXCEPT !.status = SUCCESS], now)]
                  /\ pc' = [pc EXCEPT ![c] = "done"]
                  /\ UNCHANGED <<local, session, escaped>>
             ELSE /\ metrics' = [metrics EXCEPT ![c].jobs_found = n]
                  /\ pc' = [pc EXCEPT ![c] = "save"]
                  /\ local' = [local EXCEPT ![c] = NewLocal]
                  /\ session' = [session EXCEPT ![c] = NewSession]
                  /\ UNCHANGED escaped
  /\ UNCHANGED <<max_retries, attempt, storage, storage0, batch_cap>>
  /\ UNCHANGED others

\* -------------------------------------------------------------- save_jobs
\* the job dicts of a batch, by what save_jobs does with them:
\*   ok      a complete job dict
\*   badkey  carries a key that is no column of Job: Job(**job_data) raises
\*           TypeError; the update path skips the key (hasattr)
\*   badrow  a NOT NULL column (title, description, apply_url) is None: the
\*           INSERT or UPDATE is refused when the session flushes
\* a job dict may also lack its job_id (NoId)
Jobs ==
  [job_id : JobIds, kind : {"ok", "badkey", "badrow"}, payload : 1..NumPayloads]
  \cup {[job_id |-> NoId, kind |-> "ok", payload |-> 1]}

\* mutant: the exists-check never finds the row
ExistingNever(c, s, j) == FALSE

\* session.query(Job).filter(Job.job_id == job_data["job_id"]).first()
\* after the autoflush the query triggers
Existing(c, s, j) == j \in IdsOf(View(c, s))

\* the setattr loop on existing_job, flushed later
UpdateOp(job) ==
  [op |-> "upd", job_id |-> job.job_id, payload |-> job.payload,
   bad |-> (job.kind = "badrow")]

\* session.add(Job(**job_data)), flushed later
InsertOp(job) ==
  [op |-> "ins", job_id |-> job.job_id, payload |-> job.payload,
   bad |-> (job.kind = "badrow")]

\* "if (saved_count + updated_count) % 10 == 0"
CommitDue(l) == (l.saved_count + l.updated_count) % CommitEvery = 0

\* the per-job handler (lines 192-197): count, record, roll back, go on
JobFailed(c, l) ==
  /\ local' = [local EXCEPT ![c] =
        [l EXCEPT !.failed_count = @ + 1, !.pos = @ + 1]]
  /\ metrics' = [metrics EXCEPT ![c].errors = Append(@, "save_job")]
  /\ session' = [session EXCEPT ![c] = Rollback(@)]
  /\ UNCHANGED storage

\* the job was counted (l) and its write is pending (s): commit if it is the
\* 10th upsert (line 190, inside the per-job try), then go to the next job
Counted(c, l, s) ==
  IF CommitDue(l)
  THEN /\ ~FlushWaits(c, s)
       /\ IF FlushFails(c, s)
          THEN JobFailed(c, l)
          ELSE /\ storage' = Committed(c, s)
               /\ session' = [session EXCEPT ![c] = NewSession]
               /\ local' = [local EXCEPT ![c] = [l EXCEPT !.pos = @ + 1]]
               /\ UNCHANGED metrics
  ELSE /\ session' = [session EXCEPT ![c] = s]
       /\ local' = [local EXCEPT ![c] = [l EXCEPT !.pos = @ + 1]]
       /\ UNCHANGED <<metrics, storage>>

\* the outer handler of save_jobs (lines 217-225) re-raises into run()
SaveJobsRaises(c, e) ==
  /\ RunFails(c, [metrics[c] EXCEPT !.errors = Append(@, "db_error")], e,
              clock[c])
  /\ session' = [session EXCEPT ![c] = NewSession]
  /\ UNCHANGED <<local, storage>>

\* "Determine final status" (lines 256-259)
FinalStatus(failed) == IF failed = 0 THEN SUCCESS ELSE PARTIAL_SUCCESS

\* what the run has seen of its batch so far
Seen(h, job) ==
  [h EXCEPT !.batch_ids = IF job.job_id = NoId THEN @ ELSE @ \cup {job.job_id},
            !.all_ok = @ /\ job.kind = "ok" /\ job.job_id # NoId]

\* what the run has seen of its writes after one job took the counters from
\* l0 to l1: the counted writes of the open transaction (open) are lost with
\* the rollback of the per-job handler and made durable (committed) by the
\* commit after every 10th counted job
Tally(h, job, l0, l1) ==
  IF l1.failed_count > l0.failed_count
  THEN IF job.job_id = NoId THEN h ELSE [h EXCEPT !.open = 0]
  ELSE IF CommitDue(l1)
       THEN [h EXCEPT !.committed = @ + h.open + 1, !.open = 0]
       ELSE [h EXCEPT !.open = @ + 1]

\* one iteration of "for job_data in jobs_data"
SaveJob(c) ==
  /\ pc[c] = "save"
  /\ local[c].pos < metrics[c].jobs_found
  /\ \E job \in Jobs :
       LET l == local[c]
           h == Seen(hist[c], job)
       IN IF job.job_id = NoId
          THEN /\ local' = [local EXCEPT ![c] =
                      [l EXCEPT !.failed_count = @ + 1, !.pos = @ + 1]]
               /\ hist' = [hist EXCEPT ![c] = Tally(h, job, l, local'[c])]
               /\ UNCHANGED <<metrics, session, storage, pc, escaped>>
          ELSE /\ ~FlushWaits(c, session[c])
               /\ UNCHANGED <<pc, escaped>>
               /\ IF FlushFails(c, session[c])
                  THEN /\ JobFailed(c, l)
                       /\ hist' = [hist EXCEPT ![c] = Tally(h, job, l, local'[c])]
                  ELSE LET s1 == Flushed(session[c])
                       IN IF Existing(c, s1, job.job_id)
                          THEN /\ Counted(c, [l EXCEPT !.updated_count = @ + 1],
                                          [s1 EXCEPT !.pending = <<UpdateOp(job)>>])
                               /\ hist' = [hist EXCEPT ![c] =
                                     Tally([h EXCEPT !.counted = @ \cup {job.job_id}],
                                           job, l, local'[c])]
                          ELSE IF job.kind = "badkey"
                          THEN /\ JobFailed(c, l)
                               /\ hist' = [hist EXCEPT ![c] = Tally(h, job, l, local'[c])]
                          ELSE /\ Counted(c, [l EXCEPT !.saved_count = @ + 1],
                                          [s1 EXCEPT !.pending = <<InsertOp(job)>>])
                               /\ hist' = [hist EXCEPT ![c] =
                                     Tally([h EXCEPT !.counted = @ \cup {job.job_id}],
                                           job, l, local'[c])]
  /\ UNCHANGED <<max_retries, attempt, clock, storage0, batch_cap>>
  /\ UNCHANGED others

\* metrics after save_jobs returned (lines 207-209) and run() set the status
SaveReturned(m, l) ==
  [m EXCEPT !.jobs_saved = l.saved_count, !.jobs_updated = l.updated_count,
            !.jobs_failed = l.failed_count,
            !.status = FinalStatus(l.failed_count)]

\* line 200: the final commit, outside the per-job try; then run() finishes
FinalCommit(c) ==
  /\ pc[c] = "save"
  /\ local[c].pos = metrics[c].jobs_found
  /\ ~FlushWaits(c, session[c])
  /\ IF FlushFails(c, session[c])
     THEN /\ SaveJobsRaises(c, "IntegrityError")
          /\ hist' = [hist EXCEPT ![c].save_raised = TRUE, ![c].open = 0]
     ELSE /\ storage' = Committed(c, session[c])
          /\ session' = [session EXCEPT ![c] = NewSession]
          /\ metrics' = [metrics EXCEPT ![c] =
                Finish(SaveReturned(@, local[c]), clock[c])]
          /\ pc' = [pc EXCEPT ![c] = "done"]
          /\ hist' = [hist EXCEPT ![c].committed = @ + hist[c].open,
                                  ![c].open = 0]
          /\ UNCHANGED <<local, escaped>>
  /\ UNCHANGED <<max_retries, attempt, clock, storage0, batch_cap>>
  /\ UNCHANGED others

\* ---------------------------------------------------------- specifications
\* one crawler runs alone
Next ==
  \E c \in Crawlers :
    \/ Start(c)
    \/ CrawlRaises(c)
    \/ HarnessReturnsNone(c)
    \/ CrawlReturns(c)
    \/ SaveJob(c)
    \/ FinalCommit(c)

Spec == Init /\ [][Next]_vars

\* one crawler runs alone on a batch long enough for a commit inside the loop
InitBatch ==
  /\ pc = [c \in Crawlers |-> IF c = 1 THEN "idle" ELSE "none"]
  /\ max_retries \in [Crawlers -> 0..MaxRetriesBatch]
  /\ max_retries[1] \in {0, MaxRetriesBatch} /\ max_retries[2] = 0
  /\ metrics = [c \in Crawlers |-> CrawlerMetrics]
  /\ attempt = [c \in Crawlers |-> 0]
  /\ clock = [c \in Crawlers |-> StartTime]
  /\ local = [c \in Crawlers |-> NewLocal]
  /\ session = [c \in Crawlers |-> NewSession]
  /\ storage \in InitialStorages
  /\ escaped = [c \in Crawlers |-> FALSE]
  /\ hist = [c \in Crawlers |-> NewHist]
  /\ storage0 = storage
  /\ batch_cap = LongBatch
  /\ OthersIdle

SpecBatch == InitBatch /\ [][Next]_vars

\* two crawlers run at the same time on one jobs table
InitConc ==
  /\ pc = [c \in Crawlers |-> "idle"]
  /\ max_retries \in [Crawlers -> 0..MaxRetriesConc]
  /\ metrics = [c \in Crawlers |-> CrawlerMetrics]
  /\ attempt = [c \in Crawlers |-> 0]
  /\ clock = [c \in Crawlers |-> StartTime]
  /\ local = [c \in Crawlers |-> NewLocal]
  /\ session = [c \in Crawlers |-> NewSession]
  /\ storage \in InitialStorages
  /\ escaped = [c \in Crawlers |-> FALSE]
  /\ hist = [c \in Crawlers |-> NewHist]
  /\ storage0 = storage
  /\ batch_cap = MaxJobsConc
  /\ OthersIdle

SpecConc == InitConc /\ [][Next]_vars

\* the crawler harness at rest: no crawler is running
CrawlersIdle ==
  /\ pc = [c \in Crawlers |-> "none"]
  /\ max_retries = [c \in Crawlers |-> 0]
  /\ metrics = [c \in Crawlers |-> CrawlerMetrics]
  /\ attempt = [c \in Crawlers |-> 0]
  /\ clock = [c \in Crawlers |-> StartTime]
  /\ local = [c \in Crawlers |-> NewLocal]
  /\ session = [c \in Crawlers |-> NewSession]
  /\ storage = EmptyBag
  /\ escaped = [c \in Crawlers |-> FALSE]
  /\ hist = [c \in Crawlers |-> NewHist]
  /\ storage0 = storage
  /\ batch_cap = MaxJobs

\* ------------------------------------------------------- crawler monitoring
\* backend/utils/crawler_monitoring.py, fed by celery_app.monitored_crawl.
\* The totals of jobs and the average duration, which no health check reads,
\* are left out of the stats.

CrawlerHealth ==
  [HEALTHY |-> "healthy", WARNING |-> "warning", CRITICAL |-> "critical",
   UNKNOWN |-> "unknown"]

NoTime == -1               \* None where a timestamp is expected

\* time.strftime("%Y-%m-%dT%H:%M:%SZ", time.gmtime(t)): whole seconds
strftime(t) == t \div TicksPerSecond

\* datetime.fromisoformat(last_run.replace('Z', '+00:00')).replace(tzinfo=None)
fromisoformat(text) == text * TicksPerSecond

Hours(n) == n * SecondsPerHour * TicksPerSecond

NewStats ==
  [total_runs |-> 0, successful_runs |-> 0, failed_runs |-> 0,
   last_run |-> NoTime, last_success |-> NoTime, recent_errors |-> <<>>]

ForgetRun(cs, organization, m) ==
  IF m.status = FAILED /\ organization \in DOMAIN cs THEN cs
  ELSE [o \in DOMAIN cs \cup {organization} |->
          IF o \in DOMAIN cs
          THEN [cs[o] EXCEPT !.total_runs = @ + 1, !.successful_runs = @ + 1]
          ELSE [NewStats EXCEPT !.total_runs = 1, !.successful_runs = 1]]

update_crawler_stats(cs, organization, m) ==
  LET stats == IF organization \in DOMAIN cs THEN cs[organization] ELSE NewStats
      all == stats.recent_errors \o m.errors
      updated ==
        [total_runs |-> stats.total_runs + 1,
         successful_runs |->
           stats.successful_runs + (IF m.status = SUCCESS THEN 1 ELSE 0),
         failed_runs |-> stats.failed_runs + (IF m.status = FAILED THEN 1 ELSE 0),
         last_run |-> m.end_time,
         last_success |->
           IF m.status = SUCCESS THEN m.end_time ELSE stats.last_success,
         recent_errors |->
           IF m.errors # <<>>
           THEN IF Len(all) > KeepErrors
                THEN SubSeq(all, Len(all) - KeepErrors + 1, Len(all))
                ELSE all
           ELSE stats.recent_errors]
  IN [o \in DOMAIN cs \cup {organization} |->
        IF o = organization THEN updated ELSE cs[o]]

RaiseToWarningAlways(h) == CrawlerHealth.WARNING

\* if health_status == CrawlerHealth.HEALTHY: health_status = CrawlerHealth.WARNING
RaiseToWarning(h) == IF h = CrawlerHealth.HEALTHY THEN CrawlerHealth.WARNING ELSE h

\* the "health" field of the dictionary get_crawler_health returns at time t
get_crawler_health(cs, organization, t) ==
  IF organization \notin DOMAIN cs
  THEN CrawlerHealth.UNKNOWN
  ELSE
    LET stats == cs[organization]
        since == t - fromisoformat(stats.last_run)
        check1 ==
          IF stats.last_run # NoTime
          THEN IF since > Hours(CriticalHours) THEN CrawlerHealth.CRITICAL
               ELSE IF since > Hours(WarningHours) THEN RaiseToWarning(CrawlerHealth.HEALTHY)
               ELSE CrawlerHealth.HEALTHY
          ELSE CrawlerHealth.UNKNOWN
        rate_lt(r) == stats.successful_runs * Percent < r * stats.total_runs
        check2 ==
          IF stats.total_runs > 0
          THEN IF rate_lt(CriticalRate) THEN CrawlerHealth.CRITICAL
               ELSE IF rate_lt(WarningRate) THEN RaiseToWarning(check1)
               ELSE check1
          ELSE check1
    IN IF Len(stats.recent_errors) > ManyErrors
       THEN RaiseToWarning(check2)
       ELSE check2

\* celery_app.monitored_crawl: the crawl function returns or raises, and the
\* finally block reports the run to the monitor
monitored_crawl(organization) ==
  /\ IF organization \in DOMAIN crawler_stats
     THEN crawler_stats[organization].total_runs < MaxRuns
     ELSE TRUE
  /\ \E raised \in BOOLEAN :
       /\ crawler_stats' = update_crawler_stats(crawler_stats, organization,
         [status |-> IF raised THEN FAILED ELSE SUCCESS,
          errors |-> IF raised THEN <<"e">> ELSE <<>>,
          end_time |-> strftime(utcnow)])
       /\ invoked' =
            [o \in DOMAIN invoked \cup {organization} |->
               LET before == IF o \in DOMAIN invoked THEN invoked[o]
                             ELSE [returned |-> 0, raised |-> 0]
               IN IF o # organization THEN before
                  ELSE IF raised
                       THEN [before EXCEPT !.raised = @ + 1]
                       ELSE [before EXCEPT !.returned = @ + 1]]
  /\ health' = NoReport
  /\ UNCHANGED <<utcnow, beside_monitor>>

\* routers/crawl.py asks the monitor for one organization's health
GetCrawlerHealth(organization) ==
  /\ health' = [organization |-> organization,
                health |-> get_crawler_health(crawler_stats, organization, utcnow)]
  /\ UNCHANGED <<crawler_stats, utcnow, invoked, beside_monitor>>

\* time passes: a day, or a day and one tick
Tick ==
  /\ \E d \in {Hours(WarningHours), Hours(WarningHours) + 1} :
       /\ utcnow + d <= MaxDays * (Hours(WarningHours) + 1)
       /\ utcnow' = utcnow + d
  /\ health' = NoReport
  /\ UNCHANGED <<crawler_stats, invoked, beside_monitor>>

NextMonitor ==
  \/ \E organization \in {"WHO"} :
       \/ monitored_crawl(organization)
       \/ GetCrawlerHealth(organization)
  \/ Tick

InitMonitor == CrawlersIdle /\ OthersIdle

SpecMonitor == InitMonitor /\ [][NextMonitor]_<<vars, others>>

\* --------------------------------------------------------- run_all_crawlers
\* backend/run_all_crawlers.py: main() calls the site crawlers one after the
\* other, each in its own try/except, and sums up what they report.
Sites ==
  <<"uncareer_internship", "uncareer_job", "uncareer_vacancy",
    "un_careers_official", "who", "fao", "unops", "ilo">>

\* what BaseCrawler.save_jobs returns: a dict of three counters
SaveJobsDict(n) == [kind |-> "dict", saved |-> n]

\* a plain number
Number(n) == [kind |-> "int", saved |-> n]

\* how a crawl_*_sync call can end; "raises" is an Exception leaving it.
\* ILOSpider.crawl() takes no max_jobs, so crawl_ilo_sync(max_jobs=20)
\* always raises TypeError.
SiteOutcomes(site) ==
  IF site = "ilo" THEN {"raises"} ELSE {"raises", "returns"}

\* the result of a crawl that found n jobs, as far as main() reads it
SiteResult(site, n) ==
  [jobs_found |-> n,
   jobs_saved |->
     IF site = "un_careers_official" /\ n = 0
     THEN \* saved_count = self.save_jobs(jobs_data) if jobs_data else 0
          Number(0)
     ELSE \* saved_count = self.save_jobs(...)
          SaveJobsDict(n)]

\* results.append({'jobs_found': 0, 'jobs_saved': 0})
FailedSite == [jobs_found |-> 0, jobs_saved |-> Number(0)]

\* sum(r.get(key, 0) for r in results): "TypeError" when an item is no number
SumSaved(results) ==
  IF \E i \in 1..Len(results) : results[i].jobs_saved.kind # "int"
  THEN "TypeError"
  ELSE "ok"

\* one numbered block of main(): call the next site's crawler, print, append
RunSite ==
  /\ mainrun.pc = "sites"
  /\ Len(mainrun.called) < Len(Sites)
  /\ LET k == Len(mainrun.called) + 1
         site == Sites[k]
     IN \E n \in 0..MaxFound : \E out \in SiteOutcomes(site) :
          mainrun' =
            [mainrun EXCEPT
               !.called = Append(@, site),
               !.results = Append(@, IF out = "raises" THEN FailedSite
                                                       ELSE SiteResult(site, n)),
               !.raised = IF out = "raises" THEN @ \cup {k} ELSE @]
  /\ UNCHANGED beside_main

\* lines 113-131: the totals and the closing banner
Summary ==
  /\ mainrun.pc = "sites"
  /\ Len(mainrun.called) = Len(Sites)
  /\ mainrun' = [mainrun EXCEPT !.pc =
        IF SumSaved(mainrun.results) = "TypeError" THEN "raised" ELSE "done"]
  /\ UNCHANGED beside_main

NextMain == RunSite \/ Summary

InitMain == CrawlersIdle /\ OthersIdle

SpecMain == InitMain /\ [][NextMain]_<<vars, others>>

\* ------------------------------------------------------------ match scoring
\* backend/services/matching_service.py and backend/utils/keyword_extraction.py.
\* Texts are sequences of characters.  Floats are kept as exact fractions; the
\* keyword list of a job is the output of extract_keywords_with_importance.
RECURSIVE GCD(_, _)
GCD(a, b) == IF b = 0 THEN a ELSE GCD(b, a % b)

\* the number n / d, in lowest terms
Frac(n, d) ==
  LET g == GCD(IF n < 0 THEN -n ELSE n, d) IN [n |-> n \div g, d |-> d \div g]

Plus(x, y) == Frac(x.n * y.d + y.n * x.d, x.d * y.d)
Times(x, y) == Frac(x.n * y.n, x.d * y.d)
Leq(x, y) == x.n * y.d <= y.n * x.d

\* round(x, 2) in hundredths; a value half-way between two hundredths goes
\* where its binary representation happens to lie
Round2(x) ==
  LET q == (x.n * 100) \div x.d
      rest == (x.n * 100) % x.d
  IN IF 2 * rest < x.d THEN {q}
     ELSE IF 2 * rest > x.d THEN {q + 1}
     ELSE {q, q + 1}

\* str.lower()
Lower(text) ==
  [i \in DOMAIN text |->
     CASE text[i] = "A" -> "a" [] text[i] = "B" -> "b" [] text[i] = "C" -> "c"
       [] text[i] = "D" -> "d" [] text[i] = "P" -> "p"
       [] OTHER -> text[i]]

\* str.strip()
Strip(text) ==
  LET inked == {i \in DOMAIN text : text[i] # " "}
  IN IF inked = {} THEN <<>>
     ELSE SubSeq(text, CHOOSE i \in inked : \A j \in inked : i <= j,
                       CHOOSE i \in inked : \A j \in inked : i >= j)

\* needle in hay, for two strings
Contains(hay, needle) ==
  \E i \in 0..(Len(hay) - Len(needle)) :
    SubSeq(hay, i + 1, i + Len(needle)) = needle

\* lines 286-291: one row of the distance table, built from left to right;
\* current_row holds the entries for the first Len(current_row) - 1
\* characters of s2
RECURSIVE LevenshteinRow(_, _, _, _)
LevenshteinRow(previous_row, c1, s2, current_row) ==
  IF Len(current_row) = Len(s2) + 1
  THEN current_row
  ELSE LET j == Len(current_row)
           insertions == previous_row[j + 1] + 1
           deletions == current_row[j] + 1
           substitutions == previous_row[j] + (IF c1 # s2[j] THEN 1 ELSE 0)
           least == IF insertions <= deletions THEN insertions ELSE deletions
       IN LevenshteinRow(previous_row, c1, s2,
            Append(current_row,
                   IF least <= substitutions THEN least ELSE substitutions))

\* lines 284-294: the row after the first i characters of s1
RECURSIVE LevenshteinRows(_, _, _)
LevenshteinRows(s1, s2, i) ==
  IF i = 0
  THEN [j \in 1..(Len(s2) + 1) |-> j - 1]
  ELSE LevenshteinRow(LevenshteinRows(s1, s2, i - 1), s1[i], s2, <<i>>)

LengthDifference(s1, s2) ==
  IF Len(s1) < Len(s2) THEN Len(s2) - Len(s1) ELSE Len(s1) - Len(s2)

levenshtein_distance(s1, s2) ==
  LET a == IF Len(s1) < Len(s2) THEN s2 ELSE s1
      b == IF Len(s1) < Len(s2) THEN s1 ELSE s2
  IN IF Len(b) = 0 THEN Len(a) ELSE LevenshteinRows(a, b, Len(a))[Len(b) + 1]

fuzzy_match_score(t1, t2) ==
  LET threshold(similarity) ==
        IF Leq(Frac(6, 10), similarity) THEN similarity ELSE Frac(0, 1)
      score(s1, s2) ==
        LET shorter == IF Len(s1) <= Len(s2) THEN Len(s1) ELSE Len(s2)
            longer == IF Len(s1) <= Len(s2) THEN Len(s2) ELSE Len(s1)
        IN IF s1 = s2 THEN Frac(1, 1)
           ELSE IF Contains(s2, s1) \/ Contains(s1, s2)
           THEN Plus(Frac(8, 10), Times(Frac(shorter, longer), Frac(2, 10)))
           ELSE threshold(Frac(longer - levenshtein_distance(s1, s2), longer))
  IN score(Strip(Lower(t1)), Strip(Lower(t2)))

\* returns matching_keywords, missing_keywords, weighted_score
\* the sum of a list of numbers
RECURSIVE SumFrac(_)
SumFrac(xs) == IF xs = <<>> THEN Frac(0, 1) ELSE Plus(Head(xs), SumFrac(Tail(xs)))

\* returns matching_keywords, missing_keywords, weighted_score
calculate_weighted_keyword_match(resume_text, resume_skills, job_keywords) ==
  LET exact(text, skills, keyword) ==
        Contains(text, keyword) \/ \E i \in DOMAIN skills : skills[i] = keyword
      greatest(scores) == CHOOSE x \in scores : \A y \in scores : Leq(y, x)
      best_match_score(skills, keyword) ==
        greatest({Frac(0, 1)} \cup
                 {fuzzy_match_score(keyword, skills[i]) : i \in DOMAIN skills})
      \* the share of its weight a keyword adds to matched_weight, or -1 for
      \* a missing keyword
      judge(is_exact, best) ==
        IF is_exact THEN Frac(1, 1)
        ELSE IF Leq(Frac(8, 10), best) THEN best ELSE Frac(-1, 1)
      tally(verdicts) ==
        LET hit(i) == verdicts[i].n >= 0
            miss(i) == verdicts[i].n < 0
            indices == [i \in DOMAIN job_keywords |-> i]
            matching == SelectSeq(indices, hit)
            missing == SelectSeq(indices, miss)
            total_weight ==
              SumFrac([i \in DOMAIN job_keywords |->
                         Frac(job_keywords[i].weight, 10)])
            matched_weight ==
              SumFrac([i \in DOMAIN job_keywords |->
                         IF hit(i)
                         THEN Times(Frac(job_keywords[i].weight, 10), verdicts[i])
                         ELSE Frac(0, 1)])
        IN [matching_keywords |->
              [i \in DOMAIN matching |-> job_keywords[matching[i]].keyword],
            missing_keywords |->
              [i \in DOMAIN missing |-> job_keywords[missing[i]].keyword],
            weighted_score |->
              IF total_weight.n > 0
              THEN Frac(matched_weight.n * total_weight.d,
                        matched_weight.d * total_weight.n)
              ELSE Frac(1, 2)]
      match(resume_text_lower, resume_skills_lower) ==
        tally([i \in DOMAIN job_keywords |->
                 judge(exact(resume_text_lower, resume_skills_lower,
                             Lower(job_keywords[i].keyword)),
                       best_match_score(resume_skills_lower,
                                        Lower(job_keywords[i].keyword)))])
  IN match(Lower(resume_text),
           [i \in DOMAIN resume_skills |-> Lower(resume_skills[i])])

NoYears == -1              \* None where a number of years is expected

calculate_experience_score(required_years, candidate_years) ==
  LET low(ratio) ==
        IF Leq(Frac(75, 100), ratio) THEN Frac(85, 100)
        ELSE IF Leq(Frac(5, 10), ratio) THEN Frac(70, 100)
        ELSE IF Leq(ratio, Frac(30, 100)) THEN Frac(30, 100) ELSE ratio
  IN IF required_years = NoYears \/ required_years = 0 THEN Frac(9, 10)
     ELSE IF candidate_years = NoYears \/ candidate_years = 0 THEN Frac(1, 2)
     ELSE IF candidate_years >= required_years
     THEN IF 2 * candidate_years > 3 * required_years
          THEN Frac(1, 1)
          ELSE Plus(Frac(95, 100),
                    Times(Frac(candidate_years - required_years, required_years),
                          Frac(5, 100)))
     ELSE low(Frac(candidate_years, required_years))

education_levels ==
  [l \in {"High School", "Diploma/Certificate", "Bachelor's", "Master's",
          "Doctorate", "PhD"} |->
     CASE l = "High School" -> 1 [] l = "Diploma/Certificate" -> 2
       [] l = "Bachelor's" -> 3 [] l = "Master's" -> 4 [] OTHER -> 5]

\* a level that is None or "" is written ""
calculate_education_score(required_level, candidate_level) ==
  LET idx(l) == IF l \in DOMAIN education_levels THEN education_levels[l] ELSE 3
      lower(ratio) == IF Leq(ratio, Frac(40, 100)) THEN Frac(40, 100) ELSE ratio
      score(required_idx, candidate_idx) ==
        IF candidate_idx >= required_idx
        THEN IF candidate_idx > required_idx THEN Frac(1, 1) ELSE Frac(95, 100)
        ELSE lower(Times(Frac(candidate_idx, required_idx), Frac(8, 10)))
  IN IF required_level = "" THEN Frac(9, 10)
     ELSE IF candidate_level = "" THEN Frac(6, 10)
     ELSE score(idx(required_level), idx(candidate_level))

\* language_requirements is the list of the dict's items; None is <<>>
calculate_language_score(language_requirements, resume_text, resume_skills) ==
  LET is_required(item) == item.level = "required"
      found(text, skills, lang) ==
        \/ Contains(text, lang)
        \/ \E i \in DOMAIN skills :
             \/ skills[i] = lang
             \/ Leq(Frac(8, 10), fuzzy_match_score(lang, skills[i]))
      score(required_languages, resume_text_lower, resume_skills_lower) ==
        IF required_languages = <<>>
        THEN Frac(9, 10)
        ELSE Plus(Frac(5, 10),
               Times(Frac(Cardinality(
                            {i \in DOMAIN required_languages :
                               found(resume_text_lower, resume_skills_lower,
                                     Lower(required_languages[i].lang))}),
                          Len(required_languages)),
                     Frac(5, 10)))
  IN score(SelectSeq(language_requirements, is_required), Lower(resume_text),
           [i \in DOMAIN resume_skills |-> Lower(resume_skills[i])])

\* a location or text that is None or "" is written <<>>
calculate_location_score(job_location, resume_text) ==
  LET parts(location, cuts) ==
        {Strip(SubSeq(location, c[1] + 1, c[2] - 1)) :
           c \in {c \in cuts \X cuts :
                    /\ c[1] < c[2]
                    /\ ~\E m \in cuts : c[1] < m /\ m < c[2]}}
      score(resume_text_lower, location_lower) ==
        IF Contains(resume_text_lower, location_lower) THEN Frac(1, 1)
        ELSE IF \E part \in
                   parts(location_lower,
                         {0, Len(location_lower) + 1} \cup
                         {i \in DOMAIN location_lower : location_lower[i] = ","}) :
                  part # <<>> /\ Contains(resume_text_lower, part)
        THEN Frac(95, 100)
        ELSE Frac(75, 100)
  IN IF job_location = <<>> THEN Frac(85, 100)
     ELSE IF resume_text = <<>> THEN Frac(75, 100)
     ELSE score(Lower(resume_text), Lower(job_location))

\* lines 36-74: the keyword match and the four other sub-scores
SubScores(p) ==
  LET with(k) ==
        [matching_keywords |-> k.matching_keywords,
         missing_keywords |-> k.missing_keywords,
         keyword |-> k.weighted_score,
         experience |-> calculate_experience_score(p.job.years_of_experience,
                                                   p.resume.experience_years),
         education |-> calculate_education_score(p.job.education_level,
                                                 p.resume.education_level),
         language |-> calculate_language_score(p.job.language_requirements,
                                               p.resume.raw_text, p.resume.skills),
         location |-> calculate_location_score(p.job.location, p.resume.raw_text)]
  IN with(calculate_weighted_keyword_match(p.resume.raw_text, p.resume.skills,
                                           p.job.keywords))

WeightedSumHeavy(sc) ==
  Plus(Times(sc.keyword, Frac(45, 100)),
    Plus(Times(sc.experience, Frac(25, 100)),
      Plus(Times(sc.education, Frac(15, 100)),
        Plus(Times(sc.language, Frac(12, 100)),
             Times(sc.location, Frac(8, 100))))))

\* lines 77-83
WeightedSum(sc) ==
  Plus(Times(sc.keyword, Frac(40, 100)),
    Plus(Times(sc.experience, Frac(25, 100)),
      Plus(Times(sc.education, Frac(15, 100)),
        Plus(Times(sc.language, Frac(12, 100)),
             Times(sc.location, Frac(8, 100))))))

\* min(1.0, max(0.0, final_score))
Clamp(x) ==
  IF Leq(x, Frac(0, 1)) THEN Frac(0, 1)
  ELSE IF Leq(Frac(1, 1), x) THEN Frac(1, 1) ELSE x

\* [kw for kw, _ in keywords[:10]]: each keyword, a string, is unpacked into
\* two names, which raises ValueError unless it has exactly two characters
TopKeywords(keywords) ==
  LET unpack(first) ==
        [raises |-> \E i \in DOMAIN first : Len(first[i]) # 2,
         top |-> [i \in DOMAIN first |-> <<first[i][1]>>]]
  IN unpack(Take(keywords, TopKeywordCount))

\* the tier of the rule-based text; the notes on experience and education
\* that may follow it are left out
generate_recommendation(score) ==
  IF Leq(Frac(85, 100), score) THEN "excellent"
  ELSE IF Leq(Frac(70, 100), score) THEN "good"
  ELSE IF Leq(Frac(55, 100), score) THEN "moderate"
  ELSE IF Leq(Frac(35, 100), score) THEN "limited"
  ELSE "poor"

UseLLMAlways(st, final_score) == TRUE

\* if openai_available and settings.openai_api_key and final_score >= 0.5
UseLLM(st, final_score) ==
  st.openai_available /\ st.openai_api_key /\ Leq(Frac(5, 10), final_score)

\* the result dicts lines 112-124 can build
Results(r, recommendation) ==
  {[score |-> sc, matching_keywords |-> r.top_matching,
    missing_keywords |-> r.top_missing, recommendation |-> recommendation,
    breakdown |-> [keyword_match |-> k, experience_match |-> e,
                   education_match |-> d, language_match |-> l,
                   location_match |-> o]] :
     sc \in Round2(r.final), k \in Round2(r.scores.keyword),
     e \in Round2(r.scores.experience), d \in Round2(r.scores.education),
     l \in Round2(r.scores.language), o \in Round2(r.scores.location)}

Requests == {1, 2}

NoEntry == [present |-> FALSE, expires |-> 0]

\* a call that has not looked into the cache yet; at is the time it does
NewRequest ==
  [pc |-> "ready", computed |-> FALSE, llm |-> "none", recommendation |-> "",
   returned |-> FALSE, at |-> 0]

\* cache.get_json(cache_key): the entry, if Redis answers and still has it.
\* The entry is the JSON text of the result, which json.loads turns back into
\* an equal dict: its values are strings, lists of strings and floats.
\* settings.redis is "off" without a redis_url or after a failed ping, and
\* "down" while the calls raise RedisError
CacheHit(st, store, t) ==
  st.redis = "up" /\ store.present /\ t < store.expires

\* cache.set_json(cache_key, result, ttl=3600)
set_json(st, store, result, t) ==
  IF st.redis = "up"
  THEN [present |-> TRUE, expires |-> t + MatchTTL, value |-> result]
  ELSE store

\* lines 112-129: build the result, cache it, return it
ReturnResult(r, computed, recommendation) ==
  \E result \in Results(computed, recommendation) :
    /\ req' = [req EXCEPT ![r] =
          [computed EXCEPT !.pc = "done", !.returned = TRUE]
            @@ [result |-> result]]
    /\ cache_store' = set_json(settings, cache_store, result, cache_clock)

\* calculate_match_score up to its return, its exception or its await
calculate_match_score(r) ==
  LET proceed(c) ==
        IF c.raises
        THEN /\ req' = [req EXCEPT ![r] = [c EXCEPT !.pc = "raised"]]
             /\ UNCHANGED cache_store
        ELSE IF UseLLM(settings, c.final)
        THEN /\ req' = [req EXCEPT ![r] = [c EXCEPT !.pc = "llm"]]
             /\ UNCHANGED cache_store
        ELSE ReturnResult(r, c, c.recommendation)
      computed(sc, final_score, matching, missing) ==
        [req[r] EXCEPT !.computed = TRUE, !.at = cache_clock,
                       !.recommendation = generate_recommendation(final_score)]
          @@ [scores |-> [keyword |-> sc.keyword, experience |-> sc.experience,
                          education |-> sc.education, language |-> sc.language,
                          location |-> sc.location],
              raw |-> WeightedSum(sc), final |-> final_score,
              raises |-> matching.raises \/ missing.raises,
              top_matching |-> matching.top, top_missing |-> missing.top]
      score(sc) ==
        proceed(computed(sc, Clamp(WeightedSum(sc)),
                         TopKeywords(sc.matching_keywords),
                         TopKeywords(sc.missing_keywords)))
  IN /\ r \in DOMAIN req /\ req[r].pc = "ready"
     /\ IF CacheHit(settings, cache_store, cache_clock)
        THEN /\ req' = [req EXCEPT ![r] =
                   [@ EXCEPT !.pc = "done", !.returned = TRUE,
                             !.at = cache_clock]
                     @@ [result |-> cache_store.value]]
             /\ UNCHANGED cache_store
        ELSE score(SubScores(pair))
     /\ UNCHANGED <<pair, settings, cache_clock, beside_match>>

\* lines 100-129: the LLM call ends (get_ai_recommendation raises, returns
\* "", or returns a text), and the request with it
LLMResponds(r) ==
  /\ r \in DOMAIN req /\ req[r].pc = "llm"
  /\ \E outcome \in {"raises", "empty", "advice_1", "advice_2"} :
       ReturnResult(r, [req[r] EXCEPT !.llm = outcome],
                    IF outcome \in {"raises", "empty"}
                    THEN req[r].recommendation ELSE outcome)
  /\ UNCHANGED <<pair, settings, cache_clock, beside_match>>

\* resume.skills and resume.raw_text None are written <<>>
Resumes ==
  [skills : {<<>>, <<<<"a", "a", "a", "a", "a">>>>,
             <<<<"A", "A", "B", "A", "A", "b">>>>, <<<<"C", "#">>>>},
   raw_text : {<<>>, <<"a", "b">>},
   experience_years : {NoYears, 3, 4},
   education_level : {"", "High School", "Master's"}]

JobPostings ==
  [keywords : {<<>>, <<[keyword |-> <<"c", "#">>, weight |-> 15]>>,
               <<[keyword |-> <<"a", "a", "b", "a", "a">>, weight |-> 15]>>,
               <<[keyword |-> <<"a", "a", "b", "a", "a">>, weight |-> 15],
                 [keyword |-> <<"c", "#">>, weight |-> 10]>>},
   years_of_experience : {NoYears, 2},
   education_level : {"", "Bachelor's", "PhD"},
   language_requirements :
     {<<>>, <<[lang |-> <<"A", "b">>, level |-> "required"]>>,
      <<[lang |-> <<"b", "b">>, level |-> "required"],
        [lang |-> <<"a", "b">>, level |-> "preferred"]>>},
   location : {<<>>, <<"A", "b">>, <<"b", "b", ",", " ", "a", "b">>}]

\* one request for a pair
InitMatch ==
  /\ CrawlersIdle /\ MonitorInit /\ MainInit /\ ExtractionIdle /\ RateLimitIdle
  /\ pair \in [resume : Resumes, job : JobPostings]
  /\ settings \in [openai_available : BOOLEAN, openai_api_key : BOOLEAN,
                   redis : {"up"}]
  /\ req = [r \in {1} |-> NewRequest]
  /\ cache_store = NoEntry
  /\ cache_clock = 0

NextMatch ==
  \E r \in Requests : calculate_match_score(r) \/ LLMResponds(r)

SpecMatch == InitMatch /\ [][NextMatch]_<<vars, others>>

\* seconds pass; the amounts bring the clock just before and onto the expiry
CacheTick ==
  /\ \E d \in {MatchTTL - 1, MatchTTL} :
       /\ cache_clock + d <= MaxCachePeriods * MatchTTL
       /\ cache_clock' = cache_clock + d
  /\ UNCHANGED <<pair, settings, req, cache_store, beside_match>>

\* two calls for the same resume and job; the pairs have no job keywords and
\* differ in the education levels
InitCache ==
  /\ CrawlersIdle /\ MonitorInit /\ MainInit /\ ExtractionIdle /\ RateLimitIdle
  /\ pair \in
       {[resume |-> [skills |-> <<>>, raw_text |-> <<>>, experience_years |-> NoYears,
                     education_level |-> c],
         job |-> [keywords |-> <<>>, years_of_experience |-> NoYears,
                  education_level |-> q, language_requirements |-> <<>>,
                  location |-> <<>>]] :
          c \in {"", "Master's"}, q \in {"", "PhD"}}
  /\ settings \in [openai_available : BOOLEAN, openai_api_key : {TRUE},
                   redis : {"off", "up", "down"}]
  /\ req = [r \in Requests |-> NewRequest]
  /\ cache_store = NoEntry
  /\ cache_clock = 0

NextCache == NextMatch \/ CacheTick

SpecCache == InitCache /\ [][NextCache]_<<vars, others>>

\* ------------------------------------------------------------ site job ids
\* The job_id each site extractor gives a posting, and the upsert of
\* save_jobs that keys the jobs table by it.  Texts are sequences of
\* characters.
Digits == <<"0", "1", "2", "3", "4", "5", "6", "7", "8", "9">>

\* str(n) for an int
RECURSIVE str(_)
str(n) ==
  IF n < 0 THEN <<"-">> \o str(-n)
  ELSE IF n < 10 THEN <<Digits[n + 1]>>
  ELSE str(n \div 10) \o <<Digits[(n % 10) + 1]>>

\* hash(text) of a str: within one process a function of the text, with a
\* seed the interpreter draws when the process starts (hash randomisation)
hash(seed, text) == (2 * seed - 3) * (Len(text) + 10 * seed)

\* text.split("/")[-1]
LastSegment(text) ==
  LET slashes == {i \in DOMAIN text : text[i] = "/"}
  IN IF slashes = {} THEN text
     ELSE SubSeq(text, (CHOOSE i \in slashes : \A j \in slashes : j <= i) + 1,
                 Len(text))

\* re.search(r'jobopening/(\d+)', text): group 1 of the leftmost match, or
\* <<>> when there is none
JobOpeningNumber(text) ==
  LET word == <<"j", "o", "b", "o", "p", "e", "n", "i", "n", "g", "/">>
      isdigit(i) == i \in DOMAIN text /\ \E d \in DOMAIN Digits : Digits[d] = text[i]
      starts == {i \in DOMAIN text :
                   /\ i + Len(word) <= Len(text)
                   /\ SubSeq(text, i, i + Len(word) - 1) = word
                   /\ isdigit(i + Len(word))}
      group(first) ==
        SubSeq(text, first,
               CHOOSE last \in first..Len(text) :
                 /\ \A i \in first..last : isdigit(i)
                 /\ ~isdigit(last + 1))
  IN IF starts = {} THEN <<>>
     ELSE group((CHOOSE i \in starts : \A j \in starts : i <= j) + Len(word))

\* WHOSpider.parse_api_job: the id of the API record, else who_<hash>
parse_api_job(id, h) ==
  IF id # <<>> THEN id ELSE <<"w", "h", "o", "_">> \o str(h)

\* hashlib.md5(text).hexdigest(): hexadecimal digits that the text
\* determines, two of them here instead of 32
hexdigest(text) ==
  LET hex == Digits \o <<"a", "b", "c", "d", "e", "f">>
      code(c) == CHOOSE k \in DOMAIN hex \cup {Len(hex) + 1} :
                   k = Len(hex) + 1 \/ hex[k] = c
      sum == Len(text) + Cardinality({i \in DOMAIN text : code(text[i]) % 2 = 0})
  IN <<hex[(Len(text) % Len(hex)) + 1], hex[((3 * sum) % Len(hex)) + 1]>>

\* UNCareersOfficialSpider.parse_job_element lines 283-296
parse_job_element(href) ==
  LET base_url == <<"h", "t", "t", "p", ":", "/", "/", "u", "n">>
      apply_url == IF href # <<>> /\ href[1] = "/" THEN base_url \o href
                   ELSE IF Len(href) >= 4 /\ SubSeq(href, 1, 4) = <<"h", "t", "t", "p">>
                   THEN href
                   ELSE base_url \o <<"/">> \o href
      number == JobOpeningNumber(apply_url)
  IN <<"U", "N", "-">> \o (IF number # <<>> THEN number ELSE LastSegment(href))

\* the list a spider hands to save_jobs, with one more job dict
Extracted(site, posting, job_id) ==
  [extraction EXCEPT !.jobs_data =
     @ \cup {[site |-> site, posting |-> posting, job_id |-> job_id]}]

WHOExtract ==
  /\ Cardinality(extraction.jobs_data) < MaxExtracted
  /\ \E id \in {<<>>, <<"7">>, <<"4", "2">>}, text \in {<<"a">>, <<"b", "c">>} :
       extraction' = Extracted("who", id \o <<"#">> \o text,
                               parse_api_job(id, hash(extraction.hashseed, text)))
  /\ UNCHANGED beside_extraction

\* WHOSpider.parse_web_job lines 313-317; text is title + location
WHOWebExtract ==
  /\ Cardinality(extraction.jobs_data) < MaxExtracted
  /\ \E text \in {<<"a">>, <<"b", "c">>} :
       extraction' =
         Extracted("who", <<"#">> \o text,
                   <<"w", "h", "o", "_">> \o str(hash(extraction.hashseed, text)))
  /\ UNCHANGED beside_extraction

\* FAOSpider.parse_job_element lines 325-329; text is title + location
FAOExtract ==
  /\ Cardinality(extraction.jobs_data) < MaxExtracted
  /\ \E text \in {<<"a">>, <<"b", "c">>} :
       extraction' =
         Extracted("fao", text,
                   <<"f", "a", "o", "_">> \o str(hash(extraction.hashseed, text)))
  /\ UNCHANGED beside_extraction

\* the crawl of a later run: a new interpreter process with its own hash seed
\* (the same one again if PYTHONHASHSEED fixes it)
StartProcess ==
  /\ \E seed \in 1..MaxSeeds : extraction' = [extraction EXCEPT !.hashseed = seed]
  /\ UNCHANGED beside_extraction

ILOExtract ==
  /\ Cardinality(extraction.jobs_data) < MaxExtracted
  /\ \E item \in {<<"a">>, <<"b", "c">>} \X
                  {<<"/", "j", "/", "1">>, <<"/", "j", "/", "2", "2">>} :
       extraction' =
         Extracted("ilo", item[1] \o <<"_">> \o item[2],
                   hexdigest(<<"I", "L", "O", "_">> \o item[1] \o <<"_">> \o item[2]))
  /\ UNCHANGED beside_extraction

UNExtract ==
  /\ Cardinality(extraction.jobs_data) < MaxExtracted
  /\ \E href \in
         {<<"/", "j", "o", "b", "o", "p", "e", "n", "i", "n", "g", "/", "7">>,
          <<"/", "j", "o", "b", "o", "p", "e", "n", "i", "n", "g", "/", "4", "2",
            "/", "x">>,
          <<"v", "/", "9">>} :
       extraction' = Extracted("un", href, parse_job_element(href))
  /\ UNCHANGED beside_extraction

\* save_jobs lines 160-187 for one job dict: the row with this job_id is
\* updated if there is one and added otherwise
UpsertJob ==
  /\ \E job \in extraction.jobs_data :
       /\ job.job_id # <<>>
       /\ extraction' = [extraction EXCEPT !.table =
             [j \in DOMAIN @ \cup {job.job_id} |->
                IF j = job.job_id THEN [site |-> job.site, posting |-> job.posting]
                ELSE @[j]]]
  /\ UNCHANGED beside_extraction

InitExtraction == CrawlersIdle /\ OthersIdle

NextExtraction ==
  \/ WHOExtract \/ WHOWebExtract \/ FAOExtract \/ ILOExtract \/ UNExtract
  \/ UpsertJob \/ StartProcess

SpecExtraction == InitExtraction /\ [][NextExtraction]_<<vars, others>>

\* ------------------------------------------------------ fuzzy_match_score
\* the strings compared: words of a and b, as they are, with their a's in
\* capitals, and with blanks around them; two longer words
Strings ==
  LET words == UNION {[1..n -> {"a", "b"}] : n \in 0..MaxLen}
  IN words
       \cup {[i \in DOMAIN w |-> IF w[i] = "a" THEN "A" ELSE w[i]] : w \in words}
       \cup {<<" ">> \o w \o <<" ">> : w \in words}
       \cup {<<"a", "a", "b", "a", "a">>, <<"a", "b", "b", "b", "a">>}

\* one call of fuzzy_match_score for each order of the two strings in pair,
\* and one of the first string with itself
FuzzyCall ==
  /\ req = <<>>
  /\ req' = [score |-> fuzzy_match_score(pair.s1, pair.s2),
             swapped |-> fuzzy_match_score(pair.s2, pair.s1),
             same |-> fuzzy_match_score(pair.s1, pair.s1)]
  /\ UNCHANGED <<pair, settings, cache_store, cache_clock, beside_match>>

InitFuzzy ==
  /\ CrawlersIdle /\ MonitorInit /\ MainInit /\ ExtractionIdle /\ RateLimitIdle
  /\ pair \in [s1 : Strings, s2 : Strings]
  /\ settings = <<>> /\ req = <<>> /\ cache_store = <<>> /\ cache_clock = 0

SpecFuzzy == InitFuzzy /\ [][FuzzyCall]_<<vars, others>>

\* ------------------------------------------------- education and languages
\* What the site extractors infer from the text of a posting.  Of the language
\* tables only English and French are kept.

\* any(word in text for word in words)
AnyIn(words, text) == \E word \in words : Contains(text, word)

\* the texts of the postings: a sentence on degrees, then one on languages
Texts ==
  {degrees \o <<" ">> \o languages :
     degrees \in {<<>>,
                   <<"p", "h", "d">>,
                   <<"m", "a", "s", "t", "e", "r">>,
                   <<"b", "a", "c", "h", "e", "l", "o", "r">>,
                   <<"c", "e", "r", "t", "i", "f", "i", "c", "a", "t", "e">>,
                   <<"d", "i", "p", "l", "o", "m", "a">>,
                   <<"m", "a", "s", "t", "e", "r", "'", "s", " ", "d", "e", "g", "r", "e", "e", " ", "a", "n", "d", " ", "a", " ", "p", "h", "d">>,
                   <<"P", "h", "D", " ", "o", "r", " ", "m", "a", "s", "t", "e", "r">>},
     languages \in {<<>>,
                     <<"e", "n", "g", "l", "i", "s", "h">>,
                     <<"e", "n", "g", "l", "i", "s", "h", " ", "i", "s", " ", "r", "e", "q", "u", "i", "r", "e", "d">>,
                     <<"f", "r", "e", "n", "c", "h", " ", "i", "s", " ", "d", "e", "s", "i", "r", "a", "b", "l", "e">>,
                     <<"e", "n", "g", "l", "i", "s", "h", " ", "a", "n", "d", " ", "f", "r", "e", "n", "c", "h", " ", "p", "r", "e", "f", "e", "r", "r", "e", "d">>,
                     <<"f", "l", "u", "e", "n", "c", "y", " ", "i", "n", " ", "e", "n", "g", "l", "i", "s", "h">>,
                     <<"k", "n", "o", "w", "l", "e", "d", "g", "e", " ", "o", "f", " ", "f", "r", "e", "n", "c", "h">>}}

\* WHOSpider.extract_education_level; None is written ""
extract_education_level(text) ==
  LET infer(text_lower) ==
        IF AnyIn({<<"p", "h", "d">>,
                  <<"d", "o", "c", "t", "o", "r", "a", "t", "e">>,
                  <<"d", "o", "c", "t", "o", "r", "a", "l">>}, text_lower)
        THEN "Doctorate"
        ELSE IF AnyIn({<<"m", "a", "s", "t", "e", "r">>,
                       <<"m", "a", "s", "t", "e", "r", "s">>,
                       <<"m", "s", "c">>,
                       <<"m", "a">>,
                       <<"m", "b", "a">>}, text_lower)
        THEN "Master's"
        ELSE IF AnyIn({<<"b", "a", "c", "h", "e", "l", "o", "r">>,
                       <<"b", "a", "c", "h", "e", "l", "o", "r", "s">>,
                       <<"b", "s", "c">>,
                       <<"b", "a">>,
                       <<"u", "n", "d", "e", "r", "g", "r", "a", "d", "u", "a", "t", "e">>}, text_lower)
        THEN "Bachelor's"
        ELSE IF AnyIn({<<"d", "i", "p", "l", "o", "m", "a">>,
                       <<"c", "e", "r", "t", "i", "f", "i", "c", "a", "t", "e">>,
                       <<"a", "s", "s", "o", "c", "i", "a", "t", "e">>}, text_lower)
        THEN "Diploma/Certificate"
        ELSE ""
  IN IF text = <<>> THEN "" ELSE infer(Lower(text))

\* WHOSpider.extract_language_requirements: the dict, as a function on the
\* language codes it has keys for
extract_language_requirements(text) ==
  LET language_patterns ==
        [en |-> {<<"e", "n", "g", "l", "i", "s", "h">>,
                <<"a", "n", "g", "l", "a", "i", "s">>},
         fr |-> {<<"f", "r", "e", "n", "c", "h">>,
                <<"f", "r", "a", "n", "c", "a", "i", "s">>}]
      level(text_lower) ==
        IF AnyIn({<<"r", "e", "q", "u", "i", "r", "e", "d">>,
                  <<"e", "s", "s", "e", "n", "t", "i", "a", "l">>,
                  <<"m", "a", "n", "d", "a", "t", "o", "r", "y">>,
                  <<"o", "b", "l", "i", "g", "a", "t", "o", "i", "r", "e">>}, text_lower)
        THEN "required"
        ELSE IF AnyIn({<<"d", "e", "s", "i", "r", "a", "b", "l", "e">>,
                       <<"p", "r", "e", "f", "e", "r", "r", "e", "d">>,
                       <<"a", "d", "v", "a", "n", "t", "a", "g", "e">>,
                       <<"s", "o", "u", "h", "a", "i", "t", "a", "b", "l", "e">>}, text_lower)
        THEN "desirable"
        ELSE "required"
      languages(text_lower) ==
        [lang_code \in {c \in DOMAIN language_patterns :
                          AnyIn(language_patterns[c], text_lower)} |->
           level(text_lower)]
  IN IF text = <<>> THEN <<>> ELSE languages(Lower(text))

\* WHOSpider.parse_api_job lines 237-240
WHODetail ==
  /\ \E text \in Texts :
       extraction' = [extraction EXCEPT !.detail =
         [site |-> "who", text |-> text,
          education_level |-> extract_education_level(text),
          language_requirements |-> extract_language_requirements(text)]]
  /\ UNCHANGED beside_extraction

\* UncareerSpider.fetch_detail lines 205-238, with no qualifications section
\* found: text_to_search is the full description
UncareerDetail ==
  LET lang_keywords == [en |-> <<"e", "n", "g", "l", "i", "s", "h">>,
                        fr |-> <<"f", "r", "e", "n", "c", "h">>]
      education(text_lower) ==
        IF AnyIn({<<"m", "a", "s", "t", "e", "r">>,
                  <<"a", "d", "v", "a", "n", "c", "e", "d", " ", "u", "n", "i", "v", "e", "r", "s", "i", "t", "y", " ", "d", "e", "g", "r", "e", "e">>}, text_lower)
        THEN "Master's Degree"
        ELSE IF AnyIn({<<"p", "h", "d">>,
                       <<"d", "o", "c", "t", "o", "r", "a", "t", "e">>}, text_lower)
        THEN "Doctorate"
        ELSE IF Contains(text_lower, <<"b", "a", "c", "h", "e", "l", "o", "r">>)
        THEN "Bachelor's Degree"
        ELSE ""
      required(lang, desc_lower) ==
        AnyIn({lang \o <<" ", "i", "s", " ", "r", "e", "q", "u", "i", "r", "e", "d">>, lang \o <<":", " ", "r", "e", "q", "u", "i", "r", "e", "d">>,
               <<"f", "l", "u", "e", "n", "c", "y", " ", "i", "n", " ">> \o lang}, desc_lower)
      desirable(lang, desc_lower) ==
        AnyIn({lang \o <<" ", "i", "s", " ", "d", "e", "s", "i", "r", "a", "b", "l", "e">>, lang \o <<":", " ", "d", "e", "s", "i", "r", "a", "b", "l", "e">>,
               <<"k", "n", "o", "w", "l", "e", "d", "g", "e", " ", "o", "f", " ">> \o lang}, desc_lower)
      language_requirements(desc_lower) ==
        [code \in {c \in DOMAIN lang_keywords :
                     /\ Contains(desc_lower, lang_keywords[c])
                     /\ \/ required(lang_keywords[c], desc_lower)
                        \/ desirable(lang_keywords[c], desc_lower)} |->
           IF required(lang_keywords[code], desc_lower)
           THEN "required" ELSE "desirable"]
      detail(text, text_lower) ==
        [site |-> "uncareer", text |-> text,
         education_level |-> education(text_lower),
         language_requirements |-> language_requirements(text_lower)]
  IN /\ \E text \in Texts :
          extraction' = [extraction EXCEPT !.detail = detail(text, Lower(text))]
     /\ UNCHANGED beside_extraction

\* UNCareersOfficialSpider.fetch_job_detail lines 175-209
OfficialDetail ==
  LET lang_keywords == [en |-> <<"e", "n", "g", "l", "i", "s", "h">>,
                        fr |-> <<"f", "r", "e", "n", "c", "h">>]
      education(qual_lower) ==
        IF AnyIn({<<"a", "d", "v", "a", "n", "c", "e", "d", " ", "u", "n", "i", "v", "e", "r", "s", "i", "t", "y", " ", "d", "e", "g", "r", "e", "e">>,
                  <<"m", "a", "s", "t", "e", "r", "'", "s", " ", "d", "e", "g", "r", "e", "e">>,
                  <<"m", "a", "s", "t", "e", "r">>}, qual_lower)
        THEN "Master's Degree"
        ELSE IF AnyIn({<<"p", "h", "d">>,
                       <<"d", "o", "c", "t", "o", "r", "a", "t", "e">>}, qual_lower)
        THEN "Doctorate"
        ELSE IF AnyIn({<<"f", "i", "r", "s", "t", "-", "l", "e", "v", "e", "l", " ", "u", "n", "i", "v", "e", "r", "s", "i", "t", "y", " ", "d", "e", "g", "r", "e", "e">>,
                       <<"b", "a", "c", "h", "e", "l", "o", "r", "'", "s", " ", "d", "e", "g", "r", "e", "e">>,
                       <<"b", "a", "c", "h", "e", "l", "o", "r">>}, qual_lower)
        THEN "Bachelor's Degree"
        ELSE ""
      required(lang, qual_lower) ==
        AnyIn({lang \o <<" ", "i", "s", " ", "r", "e", "q", "u", "i", "r", "e", "d">>, lang \o <<":", " ", "r", "e", "q", "u", "i", "r", "e", "d">>}, qual_lower)
      desirable(lang, qual_lower) ==
        AnyIn({lang \o <<" ", "i", "s", " ", "d", "e", "s", "i", "r", "a", "b", "l", "e">>, lang \o <<":", " ", "d", "e", "s", "i", "r", "a", "b", "l", "e">>}, qual_lower)
      lang_requirements(qual_lower) ==
        [code \in {c \in DOMAIN lang_keywords :
                     /\ Contains(qual_lower, lang_keywords[c])
                     /\ \/ required(lang_keywords[c], qual_lower)
                        \/ desirable(lang_keywords[c], qual_lower)} |->
           IF required(lang_keywords[code], qual_lower)
           THEN "required" ELSE "desirable"]
      detail(text, qual_lower) ==
        [site |-> "official", text |-> text,
         education_level |-> education(qual_lower),
         language_requirements |-> lang_requirements(qual_lower)]
  IN /\ \E text \in Texts :
          extraction' = [extraction EXCEPT !.detail = detail(text, Lower(text))]
     /\ UNCHANGED beside_extraction

SpecDetail ==
  InitExtraction
    /\ [][WHODetail \/ UncareerDetail \/ OfficialDetail]_<<vars, others>>

\* ------------------------------------------------------------ rate limiting
\* backend/utils/rate_limit.py: RateLimitMiddleware and its InMemoryRateLimiter.
\* A path is the sequence of its characters; limiter.requests maps an
\* identifier to its list of (timestamp, count) pairs.

\* self.custom_limits, in the order the dict is iterated
custom_limits ==
  << [pattern |-> <<"/", "a", "p", "i", "/", "a", "u", "t", "h", "/", "l", "o", "g", "i", "n">>, limit |-> 5, window |-> 300],
     [pattern |-> <<"/", "a", "p", "i", "/", "a", "u", "t", "h", "/", "r", "e", "g", "i", "s", "t", "e", "r">>, limit |-> 3, window |-> 3600],
     [pattern |-> <<"/", "a", "p", "i", "/", "m", "a", "t", "c", "h">>, limit |-> 10, window |-> 60] >>

\* request.url.path of the requests: the three limited endpoints, a route
\* below one of them, a route with the default limit and the health check
Paths ==
  { <<"/", "a", "p", "i", "/", "a", "u", "t", "h", "/", "l", "o", "g", "i", "n">>, <<"/", "a", "p", "i", "/", "a", "u", "t", "h", "/", "r", "e", "g", "i", "s", "t", "e", "r">>, <<"/", "a", "p", "i", "/", "m", "a", "t", "c", "h">>, <<"/", "a", "p", "i", "/", "m", "a", "t", "c", "h", "/", "7">>,
    <<"/", "a", "p", "i", "/", "j", "o", "b", "s">>, <<"/", "h", "e", "a", "l", "t", "h">> }

\* path.startswith(pattern)
startswith(path, pattern) ==
  Len(pattern) <= Len(path) /\ SubSeq(path, 1, Len(pattern)) = pattern

\* RateLimitMiddleware.get_limit: the first pattern the path starts with
get_limit(path) ==
  LET hits == {i \in DOMAIN custom_limits : startswith(path, custom_limits[i].pattern)}
  IN IF hits = {}
     THEN [limit |-> default_limit, window |-> default_window]
     ELSE LET i == CHOOSE h \in hits : \A g \in hits : h <= g
          IN [limit |-> custom_limits[i].limit, window |-> custom_limits[i].window]

\* InMemoryRateLimiter.is_allowed at time now: the verdict and self.requests
\* as the call leaves it
is_allowed(requests, identifier, max_requests, window_seconds, now) ==
  LET window_start == now - window_seconds
      before == IF identifier \in DOMAIN requests THEN requests[identifier] ELSE <<>>
      kept == SelectSeq(before, LAMBDA e : e[1] > window_start)
      sum(list) == IF list = <<>> THEN 0
                   ELSE LET RECURSIVE add(_)
                            add(i) == IF i = 0 THEN 0 ELSE list[i][2] + add(i - 1)
                        IN add(Len(list))
      verdict(current_requests) ==
        [is_allowed |-> current_requests < max_requests,
         requests |->
           [k \in DOMAIN requests \cup {identifier} |->
              IF k # identifier THEN requests[k]
              ELSE IF current_requests < max_requests
                   THEN Append(kept, <<now, 1>>)
                   ELSE kept]]
  IN verdict(sum(kept))

\* InMemoryRateLimiter.cleanup at time now
cleanup(requests, now) ==
  LET cutoff == now - max_age_seconds
      kept(list) == SelectSeq(list, LAMBDA e : e[1] > cutoff)
  IN [k \in {i \in DOMAIN requests : kept(requests[i]) # <<>>} |->
        kept(requests[k])]

\* RateLimitMiddleware.dispatch for one request: the health check passes
\* unseen; any other request may trigger the periodic cleanup, then asks the
\* limiter, and is passed on (recorded in allowed) or answered with 429
dispatch(identifier, path) ==
  /\ Len(ratelimit.allowed) < MaxAllowed
  /\ IF path = <<"/", "h", "e", "a", "l", "t", "h">>
     THEN ratelimit' = ratelimit
     ELSE LET now == ratelimit.now
              due == now - ratelimit.last_cleanup > cleanup_interval
              cleaned == IF due THEN cleanup(ratelimit.requests, now)
                         ELSE ratelimit.requests
              lim == get_limit(path)
              answer(r) ==
                [ratelimit EXCEPT
                   !.requests = r.requests,
                   !.last_cleanup = IF due THEN now ELSE @,
                   !.allowed = IF r.is_allowed
                               THEN Append(@, [identifier |-> identifier,
                                               path |-> path, at |-> now])
                               ELSE @]
          IN ratelimit' = answer(is_allowed(cleaned, identifier, lim.limit,
                                            lim.window, now))
  /\ UNCHANGED beside_ratelimit

\* time.time() advances: by just over the shortest window, or by an hour
RateTick ==
  /\ ratelimit.ticks < MaxTicks
  /\ \E d \in {default_window + 1, cleanup_interval} :
       ratelimit' = [ratelimit EXCEPT !.now = @ + d, !.ticks = @ + 1]
  /\ UNCHANGED beside_ratelimit

\* the requests of one client, known by its address
NextRateLimit ==
  \/ \E identifier \in {"ip:10.0.0.1"}, path \in Paths :
       dispatch(identifier, path)
  \/ RateTick

InitRateLimit == CrawlersIdle /\ OthersIdle

SpecRateLimit == InitRateLimit /\ [][NextRateLimit]_<<vars, others>>

\* ------------------------------------------------------------------ claims
Done(c) == pc[c] = "done"
FinalStatuses == {SUCCESS, PARTIAL_SUCCESS, FAILED}

\* crawl() attempts of the run that raised
FailedAttempts(c) ==
  hist[c].crawl_calls - (IF hist[c].result \in ResultShapes THEN 1 ELSE 0)

\* crawl() was called and never returned a value
AllAttemptsRaised(c) ==
  hist[c].crawl_calls >= 1 /\ hist[c].result \notin ResultShapes

\* number of occurrences of e in the sequence s
Occurrences(s, e) == Cardinality({i \in 1..Len(s) : s[i] = e})

\* rows of the table that carry job_id j
RowsFor(bag, j) ==
  LET rows == {r \in BagToSet(bag) : r.job_id = j}
  IN IF rows = {} THEN 0
     ELSE BagCardinality([r \in rows |-> CopiesIn(r, bag)])

UniqueJobIds(bag) == \A j \in JobIds : RowsFor(bag, j) <= 1

\* C1: every run() moves the status idle -> running -> exactly one of
\* success, partial_success, failed; when run() has returned, the metrics it
\* returns carry a final status and no exception has left run().
C1_RunStateMachine ==
  [][\A c \in Crawlers :
       /\ metrics[c].status # metrics'[c].status =>
            \/ metrics[c].status = IDLE /\ metrics'[c].status = RUNNING
            \/ metrics[c].status = RUNNING /\ metrics'[c].status \in FinalStatuses
       /\ pc'[c] = "done" =>
            /\ to_dict(metrics'[c]).status \in FinalStatuses
            /\ ~escaped'[c]]_vars

\* C1 witness: save_jobs raised inside run(), and run() still returned failed
C1_Witness ==
  \E c \in Crawlers :
    Done(c) /\ hist[c].save_raised /\ metrics[c].status = FAILED /\ ~escaped[c]

\* C2: retry_count equals the number of crawl() attempts of the run that
\* raised; a run whose crawl() raises k < max_retries times and then returns
\* jobs that all persist ends success with retry_count = k.
C2_RetryCount ==
  \A c \in Crawlers :
    /\ metrics[c].retry_count = FailedAttempts(c)
    /\ (Done(c) /\ hist[c].result = "jobs" /\ hist[c].all_ok) =>
         /\ metrics[c].status = SUCCESS
         /\ metrics[c].retry_count = hist[c].crawl_calls - 1
         /\ metrics[c].retry_count < max_retries[c]

\* C2 witness: max_retries = 3, two failures, then a batch that persists
C2_Witness ==
  \E c \in Crawlers :
    /\ Done(c) /\ max_retries[c] = 3 /\ hist[c].crawl_calls = 3
    /\ hist[c].result = "jobs" /\ hist[c].all_ok
    /\ metrics[c].status = SUCCESS /\ metrics[c].retry_count = 2
    /\ metrics[c].jobs_failed = 0 /\ metrics[c].jobs_found > 1

C4_PartialIffSomeSavedSomeFailed ==
  \A c \in Crawlers :
    Done(c) =>
      (metrics[c].status = PARTIAL_SUCCESS <=>
         (metrics[c].jobs_failed >= 1
          /\ metrics[c].jobs_saved + metrics[c].jobs_updated >= 1))

C6_CountedJobsCommitted ==
  \A c \in Crawlers :
    (Done(c) /\ hist[c].result = "jobs" /\ ~hist[c].save_raised) =>
      \A j \in hist[c].counted :
        \E r \in BagToSet(storage) :
          r.job_id = j /\ r.last_scraped = RunStamp(c)

\* C7 (as claimed): every job of the batch is counted in exactly one of
\* saved, updated, failed: jobs_saved + jobs_updated + jobs_failed = jobs_found.
C7_CountsAddUp ==
  \A c \in Crawlers :
    (Done(c) /\ hist[c].result = "jobs") =>
      metrics[c].jobs_saved + metrics[c].jobs_updated + metrics[c].jobs_failed
        = metrics[c].jobs_found

\* the table as the session of c sees it, pending write included
SessionTable(c) == View(c, Flushed(session[c]))

C9_LoserFailsSafely ==
  ((\A c \in Crawlers : Done(c) /\ hist[c].result = "jobs" /\ hist[c].all_ok)) =>
    /\ UniqueJobIds(storage)
    /\ \A c \in Crawlers :
         /\ metrics[c].status # FAILED
         /\ hist[c].batch_ids \subseteq IdsOf(storage)

\* C10 (as claimed): a run that took longer than the timeout budget is
\* failed and has a timeout error in its error list.
C10_TimeoutFailsRun ==
  \A c \in Crawlers :
    (Done(c) /\ duration_seconds(metrics[c]) > timeout) =>
      /\ metrics[c].status = FAILED
      /\ \E i \in 1..Len(metrics[c].errors) : metrics[c].errors[i] = "timeout"

\* C11: a crawl() that returns normally with zero jobs (an empty dict, a dict
\* without "jobs", or "jobs": []) ends the run in success with save_jobs not
\* entered and every job counter 0.
C11_EmptyResultSucceeds ==
  \A c \in Crawlers :
    (Done(c) /\ hist[c].result \in {"empty", "nojobs", "jobs_empty"}) =>
      /\ metrics[c].status = SUCCESS
      /\ hist[c].batch_ids = {} /\ ~hist[c].save_raised
      /\ metrics[c].jobs_found = 0 /\ metrics[c].jobs_saved = 0
      /\ metrics[c].jobs_updated = 0 /\ metrics[c].jobs_failed = 0

\* C12: the health get_crawler_health reports is unknown exactly when no run
\* of the organization was ever recorded; otherwise critical exactly when the
\* last run is more than 48 hours old or the success rate is below 50%;
\* otherwise warning exactly when the last run is more than 24 hours old or
\* the success rate is below 80% or more than 10 recent errors are kept;
\* otherwise healthy.
C12_HealthClassification ==
  health # NoReport =>
    LET org == health.organization
        recorded == org \in DOMAIN crawler_stats /\ crawler_stats[org].total_runs > 0
        s == crawler_stats[org]
        age == utcnow - s.last_run * TicksPerSecond
        rate_below(r) == s.successful_runs * Percent < r * s.total_runs
        critical == age > Hours(CriticalHours) \/ rate_below(CriticalRate)
        warning == \/ age > Hours(WarningHours)
                   \/ rate_below(WarningRate)
                   \/ Len(s.recent_errors) > ManyErrors
    IN /\ (health.health = CrawlerHealth.UNKNOWN) <=> ~recorded
       /\ recorded =>
            health.health = IF critical THEN CrawlerHealth.CRITICAL
                            ELSE IF warning THEN CrawlerHealth.WARNING ELSE CrawlerHealth.HEALTHY

\* an organization that ran often enough and recently is reported warning
\* for its recent errors alone
C12_Witness ==
  /\ health # NoReport /\ health.health = CrawlerHealth.WARNING
  /\ LET s == crawler_stats[health.organization]
     IN /\ Len(s.recent_errors) > ManyErrors
        /\ s.successful_runs * Percent >= WarningRate * s.total_runs
        /\ utcnow - s.last_run * TicksPerSecond <= Hours(WarningHours)
        /\ utcnow > 0

\* C13: main() calls every site crawler exactly once in the fixed order,
\* records 0 found / 0 saved for each one that raised, and ends without
\* raising itself.
C13_MainCompletes ==
  /\ mainrun.pc # "raised"
  /\ \A k \in 1..Len(mainrun.called) : mainrun.called[k] = Sites[k]
  /\ \A k \in mainrun.raised : mainrun.results[k] = FailedSite
  /\ mainrun.pc = "done" => mainrun.called = Sites

\* the request has left calculate_match_score with a return value
Returned(r) == req[r].pc = "done" /\ req[r].returned

\* the rule-based text was the one returned
RuleBased(r) == req[r].llm \in {"none", "raises", "empty"}

ResultKeys ==
  {"score", "matching_keywords", "missing_keywords", "recommendation",
   "breakdown"}

BreakdownKeys ==
  {"keyword_match", "experience_match", "education_match", "language_match",
   "location_match"}

\* C14: calculate_match_score raises for no resume/job pair, sparse ones and
\* ones with matching or missing keywords included; what it returns has a
\* score, both keyword lists, a recommendation and the five-factor breakdown.
C14_NeverRaises ==
  \A r \in DOMAIN req :
    /\ req[r].pc # "raised"
    /\ Returned(r) =>
         /\ DOMAIN req[r].result = ResultKeys
         /\ DOMAIN req[r].result.breakdown = BreakdownKeys

InUnit(x) == Leq(Frac(0, 1), x) /\ Leq(x, Frac(1, 1))

\* C15: each of the five sub-scores lies in [0,1]; the score before the clamp
\* is 0.40 keyword + 0.25 experience + 0.15 education + 0.12 language + 0.08
\* location, the weights add up to 1, the sum lies in [0,1] and the clamp
\* leaves it as it is.
C15_WeightedSum ==
  /\ Plus(Frac(40, 100), Plus(Frac(25, 100), Plus(Frac(15, 100),
       Plus(Frac(12, 100), Frac(8, 100))))) = Frac(1, 1)
  /\ \A r \in DOMAIN req :
       req[r].computed =>
         LET s == req[r].scores
         IN /\ \A f \in DOMAIN s : InUnit(s[f])
            /\ req[r].raw =
                 Plus(Times(Frac(40, 100), s.keyword),
                   Plus(Times(Frac(25, 100), s.experience),
                     Plus(Times(Frac(15, 100), s.education),
                       Plus(Times(Frac(12, 100), s.language),
                            Times(Frac(8, 100), s.location)))))
            /\ InUnit(req[r].raw)
            /\ req[r].final = req[r].raw

\* a pair that matches on every factor is returned with the full score, and
\* the keyword sub-score is a fuzzy one strictly between 0 and 1 elsewhere
C15_Witness ==
  \E r \in DOMAIN req :
    /\ Returned(r) /\ req[r].computed
    /\ req[r].raw = Frac(1, 1) /\ req[r].result.score = 100
    /\ pair.job.keywords # <<>>

\* C16: the experience sub-score is 0.9 without a requirement, 0.5 without
\* candidate data, within [0.95, 1.0] for candidate >= required and exactly
\* 1.0 once candidate >= 1.5 x required, and for candidate < required 0.85 from
\* a ratio of 0.75, 0.70 from 0.50, else max(0.30, ratio).
C16_ExperienceBands ==
  \A r \in DOMAIN req :
    req[r].computed =>
      LET required == pair.job.years_of_experience
          candidate == pair.resume.experience_years
          score == req[r].scores.experience
          ratio == Frac(candidate, required)
      IN IF required \in {NoYears, 0} THEN score = Frac(9, 10)
         ELSE IF candidate \in {NoYears, 0} THEN score = Frac(1, 2)
         ELSE IF candidate >= required
         THEN /\ Leq(Frac(95, 100), score) /\ Leq(score, Frac(1, 1))
              /\ 2 * candidate >= 3 * required => score = Frac(1, 1)
         ELSE score =
                IF 4 * candidate >= 3 * required THEN Frac(85, 100)
                ELSE IF 2 * candidate >= required THEN Frac(70, 100)
                ELSE IF Leq(ratio, Frac(30, 100)) THEN Frac(30, 100) ELSE ratio

\* the tier of a score given in hundredths
TierOfReturned(hundredths) ==
  IF hundredths >= 85 THEN "excellent"
  ELSE IF hundredths >= 70 THEN "good"
  ELSE IF hundredths >= 55 THEN "moderate"
  ELSE IF hundredths >= 35 THEN "limited"
  ELSE "poor"

\* C17: a returned result whose recommendation is the rule-based one carries
\* the tier of the score it returns: excellent from 0.85, good from 0.70,
\* moderate from 0.55, limited from 0.35, poor below.
C17_TierOfReturnedScore ==
  \A r \in DOMAIN req :
    (Returned(r) /\ RuleBased(r)) =>
      req[r].result.recommendation = TierOfReturned(req[r].result.score)

\* C18: the LLM is asked only when it is available, a key is configured and
\* the final score is at least 0.5; when the call raises or returns an empty
\* text the request still returns, with the rule-based recommendation and the
\* score, keyword lists and breakdown of a request that never asked the LLM.
C18_LLMFallback ==
  \A r \in DOMAIN req :
    /\ (req[r].pc = "llm" \/ req[r].llm # "none") =>
         /\ settings.openai_available /\ settings.openai_api_key
         /\ Leq(Frac(1, 2), req[r].final)
    /\ (req[r].pc = "done" /\ req[r].llm \in {"raises", "empty"}) =>
         /\ req[r].returned
         /\ req[r].result.recommendation = generate_recommendation(req[r].final)
         /\ req[r].result \in Results(req[r], generate_recommendation(req[r].final))

\* the LLM call raised and the request returned the rule-based text all the
\* same, for a pair with a matching keyword
C18_Witness ==
  \E r \in DOMAIN req :
    /\ Returned(r) /\ req[r].llm = "raises"
    /\ req[r].result.recommendation = req[r].recommendation
    /\ req[r].result.matching_keywords # <<>>

\* both calls looked into the cache at the same time and found nothing
ConcurrentMisses ==
  /\ \A r \in Requests : Returned(r) /\ req[r].computed
  /\ req[1].at = req[2].at

\* C19: a call that finds an unexpired entry for its pair returns that entry
\* without computing and leaves the cache alone; a call that finds none (never
\* stored, expired after 3600 seconds, cache disabled or unreachable) computes
\* and returns; two calls for one pair that both miss at the same time return
\* and store the same value, which the cache then holds.
C19_CacheIdempotent ==
  /\ [][\A r \in Requests :
          (req[r].pc = "ready" /\ req'[r].pc # "ready") =>
            IF settings.redis = "up" /\ cache_store.present
               /\ cache_clock < cache_store.expires
            THEN /\ req'[r].pc = "done" /\ ~req'[r].computed
                 /\ req'[r].result = cache_store.value
                 /\ cache_store' = cache_store
            ELSE req'[r].computed /\ req'[r].pc \in {"llm", "done"}]_<<vars, others>>
  /\ [](ConcurrentMisses =>
          /\ req[1].result = req[2].result
          /\ settings.redis = "up" =>
               cache_store.present /\ cache_store.value = req[1].result)

\* the prefix that marks the job ids of a site
Namespace ==
  [who |-> <<"w", "h", "o", "_">>, ilo |-> <<"I", "L", "O", "_">>,
   un |-> <<"U", "N", "-">>, fao |-> <<"f", "a", "o", "_">>]

\* C20: every job_id a site extractor produces starts with the prefix of its
\* site, no two extractors of different sites produce the same job_id, and
\* a row of the jobs table is only ever rewritten by the site that wrote it.
C20_NamespacedJobIds ==
  /\ [](\A job \in extraction.jobs_data :
          /\ Len(job.job_id) >= Len(Namespace[job.site])
          /\ SubSeq(job.job_id, 1, Len(Namespace[job.site])) = Namespace[job.site])
  /\ [](\A a, b \in extraction.jobs_data : a.site # b.site => a.job_id # b.job_id)
  /\ [][\A j \in DOMAIN extraction.table :
          extraction'.table[j].site = extraction.table[j].site]_<<vars, others>>

\* C21: a posting gets the same job_id whenever and in whatever process it is
\* extracted, so the jobs table never holds two rows for one posting of a
\* site.
C21_StableJobIds ==
  /\ \A a, b \in extraction.jobs_data :
       (a.site = b.site /\ a.posting = b.posting) => a.job_id = b.job_id
  /\ \A i, j \in DOMAIN extraction.table :
       extraction.table[i] = extraction.table[j] => i = j

\* the degree an education_level label stands for
Degree(level) ==
  CASE level \in {"Doctorate", "PhD"} -> "doctorate"
    [] level \in {"Master's", "Master's Degree"} -> "master"
    [] level \in {"Bachelor's", "Bachelor's Degree"} -> "bachelor"
    [] level = "Diploma/Certificate" -> "diploma"
    [] OTHER -> "none"

\* C22: in every extractor the education level is the first that the text
\* mentions in the order doctorate/PhD, master's, bachelor's, diploma; a text
\* with both a master's degree and a PhD yields Doctorate.
C22_EducationOrder ==
  extraction.detail # <<>> =>
    LET text_lower == Lower(extraction.detail.text)
    IN Degree(extraction.detail.education_level) =
         IF AnyIn({<<"p", "h", "d">>, <<"d", "o", "c", "t", "o", "r", "a", "t", "e">>}, text_lower)
         THEN "doctorate"
         ELSE IF Contains(text_lower, <<"m", "a", "s", "t", "e", "r">>) THEN "master"
         ELSE IF Contains(text_lower, <<"b", "a", "c", "h", "e", "l", "o", "r">>) THEN "bachelor"
         ELSE IF AnyIn({<<"d", "i", "p", "l", "o", "m", "a">>, <<"c", "e", "r", "t", "i", "f", "i", "c", "a", "t", "e">>}, text_lower)
         THEN "diploma"
         ELSE "none"

\* C23: in every extractor each known language the text mentions gets an
\* entry, which is required if the text has a required/essential/mandatory
\* qualifier, else desirable if it has a desirable/preferred/advantage
\* qualifier, else required.
C23_LanguageLevels ==
  extraction.detail # <<>> =>
    LET text_lower == Lower(extraction.detail.text)
        found == extraction.detail.language_requirements
        names == [en |-> <<"e", "n", "g", "l", "i", "s", "h">>, fr |-> <<"f", "r", "e", "n", "c", "h">>]
        expected ==
          IF AnyIn({<<"r", "e", "q", "u", "i", "r", "e", "d">>, <<"e", "s", "s", "e", "n", "t", "i", "a", "l">>, <<"m", "a", "n", "d", "a", "t", "o", "r", "y">>}, text_lower)
          THEN "required"
          ELSE IF AnyIn({<<"d", "e", "s", "i", "r", "a", "b", "l", "e">>, <<"p", "r", "e", "f", "e", "r", "r", "e", "d">>, <<"a", "d", "v", "a", "n", "t", "a", "g", "e">>}, text_lower)
          THEN "desirable"
          ELSE "required"
    IN \A code \in DOMAIN names :
         Contains(text_lower, names[code]) =>
           code \in DOMAIN found /\ found[code] = expected

\* C30: an education_level an extractor writes is a key of the education
\* ladder of calculate_education_score, None apart.
C30_EducationLevelsOnLadder ==
  extraction.detail # <<>> =>
    \/ extraction.detail.education_level = ""
    \/ extraction.detail.education_level \in DOMAIN education_levels

\* the least number of insertions, deletions and substitutions of single
\* characters that turn a into b
RECURSIVE EditDistance(_, _)
EditDistance(a, b) ==
  IF a = <<>> THEN Len(b)
  ELSE IF b = <<>> THEN Len(a)
  ELSE LET least(x, y) == IF x <= y THEN x ELSE y
       IN least(least(EditDistance(Tail(a), b) + 1, EditDistance(a, Tail(b)) + 1),
                EditDistance(Tail(a), Tail(b)) + (IF Head(a) = Head(b) THEN 0 ELSE 1))

\* C24: fuzzy_match_score is in [0,1], is 1.0 for a string and itself, is the
\* same for both orders of its arguments, and for strings of which neither
\* contains the other (lower-cased and trimmed) it is 1 - distance / max(len)
\* if that is at least 0.6 and 0.0 otherwise, distance being their
\* Levenshtein distance.
C24_FuzzyMatchScore ==
  req # <<>> =>
    LET a == Strip(Lower(pair.s1))
        b == Strip(Lower(pair.s2))
        longer == IF Len(a) <= Len(b) THEN Len(b) ELSE Len(a)
        distance == EditDistance(a, b)
    IN /\ Leq(Frac(0, 1), req.score) /\ Leq(req.score, Frac(1, 1))
       /\ req.same = Frac(1, 1)
       /\ req.swapped = req.score
       /\ (~Contains(a, b) /\ ~Contains(b, a)) =>
            req.score = IF 10 * (longer - distance) >= 6 * longer
                        THEN Frac(longer - distance, longer)
                        ELSE Frac(0, 1)

\* two different words of five letters at distance 2 score exactly 0.6
C24_Witness ==
  /\ req # <<>> /\ Len(pair.s1) = 5 /\ Len(pair.s2) = 5 /\ pair.s1 # pair.s2
  /\ req.score = Frac(6, 10)

\* C26: the harness sleeps retry_delay * 2^i seconds after failed attempt i
\* (counted from 0) when another attempt follows, and at no other time: after
\* k failed attempts it has slept k times, or k - 1 times when the k-th was
\* the last attempt allowed, and never after an attempt that returned.
C26_BackoffDelays ==
  \A c \in Crawlers :
    LET k == FailedAttempts(c)
        sleeps == hist[c].sleeps
    IN /\ Len(sleeps) = IF k >= 1 /\ k = max_retries[c] THEN k - 1 ELSE k
       /\ \A i \in 1..Len(sleeps) : sleeps[i] = retry_delay * 2^(i - 1)

\* two failed attempts, then a crawl() that returned its jobs: two sleeps,
\* the second twice as long as the first
C26_Witness ==
  \E c \in Crawlers :
    /\ Done(c) /\ hist[c].result = "jobs" /\ hist[c].crawl_calls = 3
    /\ hist[c].sleeps = <<retry_delay, 2 * retry_delay>>

\* C29: each call of monitored_crawl records one run of its organization,
\* whether the crawl function returned or raised: total_runs is the number of
\* calls, failed_runs the number of calls whose crawl function raised,
\* successful_runs the number of the others, and successful_runs +
\* failed_runs never exceeds total_runs.
C29_OneRunPerInvocation ==
  /\ DOMAIN crawler_stats = DOMAIN invoked
  /\ \A o \in DOMAIN invoked :
       LET stats == crawler_stats[o]
       IN /\ stats.total_runs = invoked[o].returned + invoked[o].raised
          /\ stats.failed_runs = invoked[o].raised
          /\ stats.successful_runs = invoked[o].returned
          /\ stats.successful_runs + stats.failed_runs <= stats.total_runs

\* an organization whose crawl function has both returned and raised
C29_Witness ==
  \E o \in DOMAIN invoked :
    /\ invoked[o].returned >= 1 /\ invoked[o].raised >= 2
    /\ crawler_stats[o].total_runs >= 3

\* the last n elements of a sequence
Last(seq, n) ==
  IF Len(seq) <= n THEN seq ELSE SubSeq(seq, Len(seq) - n + 1, Len(seq))

\* C25: the errors of the metrics run() returns are the most recent ones of
\* the run, 10 at most, and the recent_errors of every organization hold 20
\* messages at most.
C25_RecentErrors ==
  /\ \A c \in Crawlers :
       Done(c) =>
         LET errors == to_dict(metrics[c]).errors
         IN Len(errors) <= 10 /\ errors = Last(metrics[c].errors, 10)
  /\ \A o \in DOMAIN crawler_stats :
       Len(crawler_stats[o].recent_errors) <= KeepErrors

\* C27: when save_jobs has returned, the writes of this batch made durable
\* are as many as the jobs it reports as saved or updated.
C27_CountsMatchStorage ==
  \A c \in Crawlers :
    (Done(c) /\ hist[c].result = "jobs" /\ ~hist[c].save_raised) =>
      hist[c].committed = metrics[c].jobs_saved + metrics[c].jobs_updated

\* the allowed requests of the client of entry e to the endpoint lim that
\* fall in the window of lim ending with e
InWindow(log, e, lim) ==
  {j \in DOMAIN log :
     /\ log[j].identifier = e.identifier
     /\ startswith(log[j].path, lim.pattern)
     /\ log[j].at > e.at - lim.window /\ log[j].at <= e.at}

\* C28: for every client and every endpoint with a custom limit, the requests
\* to that endpoint the rate limiter allows within any window of the
\* endpoint's window length are no more than the endpoint's maximum.
C28_WindowLimit ==
  \A i \in DOMAIN ratelimit.allowed, k \in DOMAIN custom_limits :
    startswith(ratelimit.allowed[i].path, custom_limits[k].pattern) =>
      Cardinality(InWindow(ratelimit.allowed, ratelimit.allowed[i], custom_limits[k]))
        <= custom_limits[k].limit

====
